---- MODULE Spec2Model ----
(***************************************************************************)
(* CDR intel analyzer: the network pipeline of src/utils/networkAnalyzer.ts *)
(* (analyzeNetworkFromCDRs and its helpers) and the record normalizer of    *)
(* src/utils/cdrProcessor.ts (processCDRData and its helpers).              *)
(* and the processFiles run of src/components/CDRUploader.tsx under the     *)
(* page of src/pages/Index.tsx.                                            *)
(*                                                                         *)
(* Strings are TLA+ strings; JavaScript string functions are operators     *)
(* over them.  Fractions are kept exact as [num, den] records.             *)
(***************************************************************************)
EXTENDS Integers, Sequences, FiniteSets, TLC

VARIABLES files, parsed, processedCDRs, pc, fileIdx, recIdx,
          nodes, nodeOrder, edges, edgeOrder, contacts, contactSet,
          result, error,
          rawData, fileName, processedData, cdrPc,
          fnArg, fnRes, fnPc,
          uploadFiles, isProcessing, uploadProgress, uploadIdx,
          uploadData, uploadPc, pageIsProcessing, pageProcessedData

netVars == <<files, parsed, processedCDRs, pc, fileIdx, recIdx,
             nodes, nodeOrder, edges, edgeOrder, contacts, contactSet,
             result, error>>
cdrVars == <<rawData, fileName, processedData, cdrPc>>
fnVars == <<fnArg, fnRes, fnPc>>
\* CDRUploader.tsx: files, isProcessing and uploadProgress of the uploader and
\* the position of its processFiles; Index.tsx: the page's isProcessing and
\* processedData
uiVars == <<uploadFiles, isProcessing, uploadProgress, uploadIdx,
            uploadData, uploadPc, pageIsProcessing, pageProcessedData>>
vars == <<netVars, cdrVars, fnVars, uiVars>>

(***************************************************************************)
(* Bounds                                                                  *)
(***************************************************************************)
MaxFiles == 2
MaxRecs == 2
MaxRows == 2
MaxDurLen == 3

(***************************************************************************)
(* JavaScript string helpers                                               *)
(***************************************************************************)
CharAt(s, i) == SubSeq(s, i, i)

UpperChars == "ABCDEFGHIJKLMNOPQRSTUVWXYZ"
LowerChars == "abcdefghijklmnopqrstuvwxyz"
DigitChars == "0123456789"
HexChars == "0123456789abcdef"

RECURSIVE IndexFrom(_, _, _)
IndexFrom(s, c, i) ==
  IF i > Len(s) THEN 0
  ELSE IF CharAt(s, i) = c THEN i
  ELSE IndexFrom(s, c, i + 1)

\* position (1-based) of the one-character string c in s, 0 when absent
IndexOfChar(s, c) == IndexFrom(s, c, 1)

LowerOf ==
  [c \in {CharAt(UpperChars, i) : i \in 1..26} |->
     CharAt(LowerChars, IndexOfChar(UpperChars, c))]

UpperOf ==
  [c \in {CharAt(LowerChars, i) : i \in 1..26} |->
     CharAt(UpperChars, IndexOfChar(LowerChars, c))]

\* value of a digit character in radix 16
HexValueOf ==
  [c \in {CharAt(HexChars, i) : i \in 1..16} |-> IndexOfChar(HexChars, c) - 1]

LowerChar(c) == IF c \in DOMAIN LowerOf THEN LowerOf[c] ELSE c

\* value of the character c as a digit, -1 when it is none
DigitValue(c) ==
  IF LowerChar(c) \in DOMAIN HexValueOf THEN HexValueOf[LowerChar(c)] ELSE -1

RECURSIVE ToLowerCase(_)
ToLowerCase(s) ==
  IF Len(s) = 0 THEN ""
  ELSE IF Len(s) = 1 THEN LowerChar(s)
  ELSE LET h == Len(s) \div 2
       IN  ToLowerCase(SubSeq(s, 1, h)) \o ToLowerCase(SubSeq(s, h + 1, Len(s)))

Includes(s, sub) ==
  \E i \in 1..(Len(s) - Len(sub) + 1) : SubSeq(s, i, i + Len(sub) - 1) = sub

IsSpace(c) == c = " "

RECURSIVE TrimStart(_)
TrimStart(s) ==
  IF Len(s) > 0 /\ IsSpace(Head(s)) THEN TrimStart(Tail(s)) ELSE s

\* time.split(':')[0]
SplitFirst(s, sep) ==
  IF IndexOfChar(s, sep) = 0 THEN s ELSE SubSeq(s, 1, IndexOfChar(s, sep) - 1)

NaN == [nan |-> TRUE, val |-> 0]
Num(n) == [nan |-> FALSE, val |-> n]

\* value of the longest prefix of s made of digits of the radix, acc so far
RECURSIVE DigitsValue(_, _, _)
DigitsValue(s, radix, acc) ==
  IF Len(s) = 0 THEN acc
  ELSE LET d == DigitValue(Head(s))
       IN  IF d >= 0 /\ d < radix
           THEN DigitsValue(Tail(s), radix, acc * radix + d)
           ELSE acc

StartsWithDigit(s, radix) ==
  /\ Len(s) > 0
  /\ LET d == DigitValue(Head(s))
     IN  d >= 0 /\ d < radix

\* parseInt(s) without a radix: leading white space, an optional sign, an
\* optional 0x prefix, then the digits; NaN when there is no digit
ParseInt(s) ==
  LET t == TrimStart(s)
      neg == Len(t) > 0 /\ Head(t) = "-"
      u == IF Len(t) > 0 /\ Head(t) \in {"-", "+"} THEN Tail(t) ELSE t
      hex == Len(u) >= 2 /\ ToLowerCase(SubSeq(u, 1, 2)) = "0x"
      body == IF hex THEN SubSeq(u, 3, Len(u)) ELSE u
      radix == IF hex THEN 16 ELSE 10
  IN  IF ~StartsWithDigit(body, radix) THEN NaN
      ELSE Num((IF neg THEN -1 ELSE 1) * DigitsValue(body, radix, 0))

\* x || d for a number x: d replaces NaN and 0
NumOr(x, d) == IF x.nan \/ x.val = 0 THEN d ELSE x.val

\* s || d for a string s
StrOr(s, d) == IF s = "" THEN d ELSE s

Max(a, b) == IF a >= b THEN a ELSE b

RECURSIVE SeqSum(_)
SeqSum(s) == IF Len(s) = 0 THEN 0 ELSE Head(s) + SeqSum(Tail(s))

SeqContains(s, x) == \E i \in 1..Len(s) : s[i] = x

Frac(n, d) == [num |-> n, den |-> d]

\* all sequences over S of length at most n
SeqsUpTo(S, n) == UNION {[1..k -> S] : k \in 0..n}

(***************************************************************************)
(* Network pipeline inputs: what processCDRData hands to the builder       *)
(***************************************************************************)
Numbers == {"1", "2", "3"}
Accounts == {"1", "2"}
BParties == Numbers \cup {""}

\* call type, time of day and duration of the canonical records drawn
RecordShapes ==
  { [CallType |-> "IN", Time |-> "00:30", Duration |-> 0],
    [CallType |-> "OUT", Time |-> "12:00", Duration |-> 30],
    [CallType |-> "Incoming", Time |-> "20:15", Duration |-> 45] }

MappingRecord(b, s) ==
  [BParty |-> b, CallType |-> s.CallType, Time |-> s.Time,
   Duration |-> s.Duration]

\* the records a file is drawn from: every shape towards the number "2"
\* (the account itself or another account, depending on the file), and an
\* evening call towards every other B Party, the missing one included
MappingRecords ==
  {MappingRecord("2", s) : s \in RecordShapes}
    \cup {MappingRecord(b, [CallType |-> "Incoming", Time |-> "20:15",
                             Duration |-> 45]) : b \in BParties}

NotParsed == [msisdn |-> "", mapping |-> <<>>, done |-> FALSE]

NoResult == [returned |-> FALSE]

(***************************************************************************)
(* buildNetworkFromCDRs                                                    *)
(***************************************************************************)
HasKey(m, k) == k \in DOMAIN m

\* the node created for a file's own number
NewCdrNode(msisdn) ==
  [id |-> msisdn, type |-> "peddler", role |-> "CDR Holder",
   callCount |-> 0, totalDuration |-> 0, uniqueContacts |-> 0,
   centrality |-> [degree |-> 0, betweenness |-> Frac(0, 1),
                   closeness |-> Frac(0, 1), eigenvector |-> 0],
   metadata |-> [incomingCalls |-> 0, outgoingCalls |-> 0,
                 avgCallDuration |-> Frac(0, 1), nightCalls |-> 0,
                 hasInfluenceScore |-> FALSE, influenceScore |-> Frac(0, 1)]]

\* the node created for a counterparty
NewBPartyNode(bParty) ==
  [id |-> bParty, type |-> "external", role |-> "External Contact",
   callCount |-> 0, totalDuration |-> 0, uniqueContacts |-> 0,
   centrality |-> [degree |-> 0, betweenness |-> Frac(0, 1),
                   closeness |-> Frac(0, 1), eigenvector |-> 0],
   metadata |-> [incomingCalls |-> 0, outgoingCalls |-> 0,
                 avgCallDuration |-> Frac(0, 1), nightCalls |-> 0,
                 hasInfluenceScore |-> FALSE, influenceScore |-> Frac(0, 1)]]

\* const hour = parseInt(time.split(':')[0]) || 12
RecordHour(time) == NumOr(ParseInt(SplitFirst(time, ":")), 12)

\* hour >= 18 || hour < 6
IsNightHour(hour) == hour >= 18 \/ hour < 6

\* callType.toLowerCase().includes('out')
IsOutgoing(callType) == Includes(ToLowerCase(callType), "out")

EdgeId(a, b) == a \o "-" \o b

\* nightRatio > 0.7 -> night, nightRatio < 0.3 -> day, else mixed
DayTimeOf(nightCalls, callCount) ==
  IF 10 * nightCalls > 7 * callCount THEN "night"
  ELSE IF 10 * nightCalls < 3 * callCount THEN "day"
  ELSE "mixed"

NewEdge(msisdn, bParty, duration, hour) ==
  [id |-> EdgeId(msisdn, bParty), source |-> msisdn, target |-> bParty,
   weight |-> 1, callCount |-> 1, totalDuration |-> duration,
   avgDuration |-> Frac(duration, 1), bidirectional |-> FALSE,
   metadata |-> [nightCalls |-> IF IsNightHour(hour) THEN 1 ELSE 0,
                 dayTime |-> IF IsNightHour(hour) THEN "night" ELSE "day"]]

\* variant: the weight of an edge stays at its first value
UpdateEdge_WeightKept(edge, duration, hour) ==
  LET cc == edge.callCount + 1
      td == edge.totalDuration + duration
      nc == edge.metadata.nightCalls + (IF IsNightHour(hour) THEN 1 ELSE 0)
  IN  [edge EXCEPT !.callCount = cc, !.totalDuration = td,
                   !.avgDuration = Frac(td, cc),
                   !.metadata = [nightCalls |-> nc,
                                 dayTime |-> DayTimeOf(nc, cc)]]

\* variant: the time of day of an edge is set when the edge is created only
UpdateEdge_DayTimeKept(edge, duration, hour) ==
  LET cc == edge.callCount + 1
      td == edge.totalDuration + duration
      nc == edge.metadata.nightCalls + (IF IsNightHour(hour) THEN 1 ELSE 0)
  IN  [edge EXCEPT !.callCount = cc, !.weight = @ + 1, !.totalDuration = td,
                   !.avgDuration = Frac(td, cc),
                   !.metadata = [nightCalls |-> nc,
                                 dayTime |-> edge.metadata.dayTime]]

UpdateEdge(edge, duration, hour) ==
  LET cc == edge.callCount + 1
      td == edge.totalDuration + duration
      nc == edge.metadata.nightCalls + (IF IsNightHour(hour) THEN 1 ELSE 0)
  IN  [edge EXCEPT !.callCount = cc, !.weight = @ + 1, !.totalDuration = td,
                   !.avgDuration = Frac(td, cc),
                   !.metadata = [nightCalls |-> nc,
                                 dayTime |-> DayTimeOf(nc, cc)]]

\* variant: only the forward key is looked up
FindEdgeKey_ForwardOnly(es, msisdn, bParty) ==
  IF HasKey(es, EdgeId(msisdn, bParty)) THEN EdgeId(msisdn, bParty) ELSE ""

\* edges.get(edgeId) || edges.get(reverseEdgeId): the key found, "" if none
FindEdgeKey(es, msisdn, bParty) ==
  IF HasKey(es, EdgeId(msisdn, bParty)) THEN EdgeId(msisdn, bParty)
  ELSE IF HasKey(es, EdgeId(bParty, msisdn)) THEN EdgeId(bParty, msisdn)
  ELSE ""

\* the holder node after one record has been counted on it
UpdateCdrNode(node, duration, callType, hour) ==
  [node EXCEPT
     !.callCount = @ + 1,
     !.totalDuration = @ + duration,
     !.metadata.outgoingCalls = IF IsOutgoing(callType) THEN @ + 1 ELSE @,
     !.metadata.incomingCalls = IF IsOutgoing(callType) THEN @ ELSE @ + 1,
     !.metadata.nightCalls = IF IsNightHour(hour) THEN @ + 1 ELSE @]

\* variant: the direction of the call is counted on the counterparty as well
UpdateBPartyNode_Directed(node, duration) ==
  [node EXCEPT !.callCount = @ + 1, !.totalDuration = @ + duration,
               !.metadata.incomingCalls = @ + 1]

UpdateBPartyNode(node, duration) ==
  [node EXCEPT !.callCount = @ + 1, !.totalDuration = @ + duration]

SeqAdd(s, x) == IF SeqContains(s, x) THEN s ELSE Append(s, x)

(***************************************************************************)
(* calculateCentralities, classifyRoles, findCommonContacts, statistics     *)
(***************************************************************************)
Touches(edge, id) == edge.source = id \/ edge.target = id

\* the edges touching id, in map order
Connections(es, order, id) ==
  SelectSeq([i \in 1..Len(order) |-> es[order[i]]], LAMBDA e : Touches(e, id))

WeightSum(conns) == SeqSum([i \in 1..Len(conns) |-> conns[i].weight])

CalculateCentralities(ns, es, order) ==
  [id \in DOMAIN ns |->
     LET connections == Connections(es, order, id)
         n == Len(connections)
     IN  [ns[id] EXCEPT !.centrality =
            [degree |-> n,
             betweenness |-> Frac(n, 2),
             closeness |-> Frac(n, Max(1, Cardinality(DOMAIN ns) - 1)),
             eigenvector |-> WeightSum(connections)]]]

\* degree*0.2 + betweenness*0.3 + closeness*0.2 + eigenvector*0.3
InfluenceScore(node) ==
  LET c == node.centrality
      bd == c.betweenness.den
      cd == c.closeness.den
  IN  Frac(2 * c.degree * bd * cd + 3 * c.betweenness.num * cd
             + 2 * c.closeness.num * bd + 3 * c.eigenvector * bd * cd,
           10 * bd * cd)

FracLess(a, b) == a.num * b.den < b.num * a.den
FracEq(a, b) == a.num * b.den = b.num * a.den

\* the ids of the nodes whose type is not external, in map order
CdrNodeIds(ns, order) == SelectSeq(order, LAMBDA id : ns[id].type # "external")

\* index of cdr[i] after the stable sort by descending influence score
SortedIndex(ns, cdr, i) ==
  Cardinality({j \in 1..Len(cdr) :
     \/ FracLess(ns[cdr[i]].metadata.influenceScore,
                 ns[cdr[j]].metadata.influenceScore)
     \/ /\ j < i
        /\ FracEq(ns[cdr[i]].metadata.influenceScore,
                  ns[cdr[j]].metadata.influenceScore)})

\* Math.ceil(cdrNodes.length * 0.1)
KingpinQuota(n) == (n + 9) \div 10

IsKingpin(node, index, n) ==
  /\ index < KingpinQuota(n)
  /\ 10 * node.metadata.incomingCalls > 6 * Max(1, node.callCount)
  /\ 10 * node.metadata.nightCalls > 4 * Max(1, node.callCount)
  /\ node.uniqueContacts > 5

IsMiddleman(node) ==
  /\ node.centrality.betweenness.num > 2 * node.centrality.betweenness.den
  /\ 10 * node.metadata.incomingCalls > 3 * Max(1, node.callCount)
  /\ 10 * node.metadata.incomingCalls < 7 * Max(1, node.callCount)
  /\ node.uniqueContacts > 3

\* variant: the broker test comes before the leader test
AssignRole_MiddlemanFirst(node, index, n) ==
  IF IsMiddleman(node)
  THEN [node EXCEPT !.type = "middleman",
                    !.role = "Middleman (Network Bridge)"]
  ELSE IF IsKingpin(node, index, n)
  THEN [node EXCEPT !.type = "kingpin",
                    !.role = "Kingpin (High Influence Leader)"]
  ELSE [node EXCEPT !.type = "peddler", !.role = "Peddler (End User)"]

AssignRole(node, index, n) ==
  IF IsKingpin(node, index, n)
  THEN [node EXCEPT !.type = "kingpin",
                    !.role = "Kingpin (High Influence Leader)"]
  ELSE IF IsMiddleman(node)
  THEN [node EXCEPT !.type = "middleman",
                    !.role = "Middleman (Network Bridge)"]
  ELSE [node EXCEPT !.type = "peddler", !.role = "Peddler (End User)"]

\* variant: the influence score is set on every node
ClassifyRoles_ScoresAll(ns, order) ==
  LET cdr == CdrNodeIds(ns, order)
      scored == [id \in DOMAIN ns |->
                   [ns[id] EXCEPT
                      !.metadata.hasInfluenceScore = TRUE,
                      !.metadata.influenceScore = InfluenceScore(ns[id])]]
      pos(id) == CHOOSE i \in 1..Len(cdr) : cdr[i] = id
  IN  IF Len(cdr) = 0 THEN ns
      ELSE [id \in DOMAIN ns |->
              IF ns[id].type # "external"
              THEN AssignRole(scored[id], SortedIndex(scored, cdr, pos(id)),
                              Len(cdr))
              ELSE scored[id]]

ClassifyRoles(ns, order) ==
  LET cdr == CdrNodeIds(ns, order)
      scored == [id \in DOMAIN ns |->
                   IF ns[id].type # "external"
                   THEN [ns[id] EXCEPT
                           !.metadata.hasInfluenceScore = TRUE,
                           !.metadata.influenceScore = InfluenceScore(ns[id])]
                   ELSE ns[id]]
      pos(id) == CHOOSE i \in 1..Len(cdr) : cdr[i] = id
  IN  IF Len(cdr) = 0 THEN ns
      ELSE [id \in DOMAIN ns |->
              IF ns[id].type # "external"
              THEN AssignRole(scored[id], SortedIndex(scored, cdr, pos(id)),
                              Len(cdr))
              ELSE ns[id]]

\* the distinct counterparties of one processed file, in first-seen order
RECURSIVE FileContacts(_, _)
FileContacts(msisdn, mapping) ==
  IF Len(mapping) = 0 THEN <<>>
  ELSE LET rest == FileContacts(msisdn, SubSeq(mapping, 1, Len(mapping) - 1))
           bParty == mapping[Len(mapping)].BParty
       IN  IF bParty # "" /\ bParty # msisdn THEN SeqAdd(rest, bParty) ELSE rest

RECURSIVE Dedupe(_)
Dedupe(s) ==
  IF Len(s) = 0 THEN <<>>
  ELSE SeqAdd(Dedupe(SubSeq(s, 1, Len(s) - 1)), s[Len(s)])

RECURSIVE Flatten(_)
Flatten(ss) == IF Len(ss) = 0 THEN <<>> ELSE Head(ss) \o Flatten(Tail(ss))

FindCommonContacts(cdrs) ==
  LET contactMaps == [i \in 1..Len(cdrs) |->
                        FileContacts(cdrs[i].msisdn, cdrs[i].mapping)]
      keys == Dedupe(Flatten(contactMaps))
      count(c) == Cardinality({i \in 1..Len(cdrs) : SeqContains(contactMaps[i], c)})
  IN  IF Len(contactMaps) < 2 THEN <<>>
      ELSE SelectSeq(keys, LAMBDA c : count(c) >= 2)

CountType(ns, t) == Cardinality({id \in DOMAIN ns : ns[id].type = t})

GenerateNetworkStatistics(ns, es) ==
  LET totalNodes == Cardinality(DOMAIN ns)
      totalEdges == Cardinality(DOMAIN es)
      maxPossibleEdges2 == totalNodes * (totalNodes - 1)
  IN  [totalNodes |-> totalNodes, totalEdges |-> totalEdges,
       kingpins |-> CountType(ns, "kingpin"),
       middlemen |-> CountType(ns, "middleman"),
       peddlers |-> CountType(ns, "peddler"),
       externalContacts |-> CountType(ns, "external"),
       clusters |-> 1,
       networkDensity |-> IF maxPossibleEdges2 > 0
                          THEN Frac(2 * totalEdges, maxPossibleEdges2)
                          ELSE Frac(0, 1)]

CdrNumbers(cdrs) == {cdrs[i].msisdn : i \in 1..Len(cdrs)}

(***************************************************************************)
(* analyzeNetworkFromCDRs                                                  *)
(***************************************************************************)
ErrorPrefix == "Failed to analyze CDR network: "
NoFilesMessage == "No files provided for analysis"
NoNodesMessage ==
  "No valid network nodes could be created from the provided CDR data"

EmptyMap == [k \in {} |-> 0]

CdrIdle ==
  /\ rawData = <<>>
  /\ fileName = ""
  /\ processedData = NoResult
  /\ cdrPc = "idle"

NoArg == [kind |-> "none", s |-> ""]

FnIdle ==
  /\ fnArg = NoArg
  /\ fnRes = 0
  /\ fnPc = "idle"

NetIdle ==
  /\ files = <<>>
  /\ parsed = <<>>
  /\ processedCDRs = <<>>
  /\ pc = "idle"
  /\ fileIdx = 0
  /\ recIdx = 0
  /\ nodes = EmptyMap
  /\ nodeOrder = <<>>
  /\ edges = EmptyMap
  /\ edgeOrder = <<>>
  /\ contacts = EmptyMap
  /\ contactSet = <<>>
  /\ result = NoResult
  /\ error = ""

\* the uploader and the page, before any click
UiIdle ==
  /\ uploadFiles = <<>>
  /\ isProcessing = FALSE
  /\ uploadProgress = Frac(0, 1)
  /\ uploadIdx = 0
  /\ uploadData = <<>>
  /\ uploadPc = "idle"
  /\ pageIsProcessing = FALSE
  /\ pageProcessedData = <<>>

\* the caller hands over a list of 0..MaxFiles files
Init ==
  /\ files \in {[i \in 1..n |-> i] : n \in 0..MaxFiles}
  /\ parsed = [i \in 1..Len(files) |-> NotParsed]
  /\ processedCDRs = <<>>
  /\ pc = "start"
  /\ fileIdx = 0
  /\ recIdx = 0
  /\ nodes = EmptyMap
  /\ nodeOrder = <<>>
  /\ edges = EmptyMap
  /\ edgeOrder = <<>>
  /\ contacts = EmptyMap
  /\ contactSet = <<>>
  /\ result = NoResult
  /\ error = ""
  /\ CdrIdle
  /\ FnIdle
  /\ UiIdle

\* variant: no check of the file list length
Start_NoLengthCheck ==
  /\ pc = "start"
  /\ pc' = "parsing"
  /\ UNCHANGED <<files, parsed, processedCDRs, fileIdx, recIdx, nodes,
                 nodeOrder, edges, edgeOrder, contacts, contactSet, result,
                 error>>
  /\ UNCHANGED <<cdrVars, fnVars, uiVars>>

\* files.length === 0 throws, the catch block wraps the message
Start ==
  /\ pc = "start"
  /\ IF Len(files) = 0
     THEN /\ pc' = "failed"
          /\ error' = ErrorPrefix \o NoFilesMessage
     ELSE /\ pc' = "parsing"
          /\ error' = error
  /\ UNCHANGED <<files, parsed, processedCDRs, fileIdx, recIdx, nodes,
                 nodeOrder, edges, edgeOrder, contacts, contactSet, result>>
  /\ UNCHANGED <<cdrVars, fnVars, uiVars>>

ParsedRecs == SeqSum([i \in 1..Len(parsed) |-> Len(parsed[i].mapping)])

\* the parse of file i completes; its rows, as processCDRData will return them
ParseComplete(i) ==
  /\ pc = "parsing"
  /\ ~parsed[i].done
  /\ \E msisdn \in Accounts, mapping \in SeqsUpTo(MappingRecords, MaxRecs - ParsedRecs) :
       parsed' = [parsed EXCEPT ![i] =
                    [msisdn |-> msisdn, mapping |-> mapping, done |-> TRUE]]
  /\ UNCHANGED <<files, processedCDRs, pc, fileIdx, recIdx, nodes, nodeOrder,
                 edges, edgeOrder, contacts, contactSet, result, error>>
  /\ UNCHANGED <<cdrVars, fnVars, uiVars>>

\* variant: the results are taken in the order in which the parses completed
ProcessFiles_CompletionOrder ==
  /\ pc = "parsing"
  /\ \A i \in 1..Len(parsed) : parsed[i].done
  /\ processedCDRs' = [k \in 1..Len(parsed) |->
                         LET i == CHOOSE j \in 1..Len(parsed) : parsed[j].at = k
                         IN  [msisdn |-> parsed[i].msisdn,
                              mapping |-> parsed[i].mapping]]
  /\ pc' = "build"
  /\ fileIdx' = 1
  /\ UNCHANGED <<files, parsed, recIdx, nodes, nodeOrder, edges, edgeOrder,
                 contacts, contactSet, result, error>>
  /\ UNCHANGED <<cdrVars, fnVars, uiVars>>

\* Promise.all has resolved: parsedFiles.map(processCDRData), in file order
ProcessFiles ==
  /\ pc = "parsing"
  /\ \A i \in 1..Len(parsed) : parsed[i].done
  /\ processedCDRs' = [i \in 1..Len(parsed) |->
                         [msisdn |-> parsed[i].msisdn,
                          mapping |-> parsed[i].mapping]]
  /\ pc' = "build"
  /\ fileIdx' = 1
  /\ UNCHANGED <<files, parsed, recIdx, nodes, nodeOrder, edges, edgeOrder,
                 contacts, contactSet, result, error>>
  /\ UNCHANGED <<cdrVars, fnVars, uiVars>>

\* variant: the file of a number promotes the node the number already has
StartFile_Promotes ==
  /\ pc = "build"
  /\ fileIdx <= Len(processedCDRs)
  /\ LET msisdn == processedCDRs[fileIdx].msisdn
     IN  /\ IF HasKey(nodes, msisdn)
            THEN /\ nodes' = [nodes EXCEPT ![msisdn].type = "peddler",
                                           ![msisdn].role = "CDR Holder"]
                 /\ nodeOrder' = nodeOrder
            ELSE /\ nodes' = nodes @@ (msisdn :> NewCdrNode(msisdn))
                 /\ nodeOrder' = Append(nodeOrder, msisdn)
         /\ contactSet' = IF HasKey(contacts, msisdn) THEN contacts[msisdn]
                          ELSE <<>>
  /\ recIdx' = 1
  /\ pc' = "fold"
  /\ UNCHANGED <<files, parsed, processedCDRs, fileIdx, edges, edgeOrder,
                 contacts, result, error>>
  /\ UNCHANGED <<cdrVars, fnVars, uiVars>>

\* variant: every file starts from an empty contact set
StartFile_FreshContacts ==
  /\ pc = "build"
  /\ fileIdx <= Len(processedCDRs)
  /\ LET msisdn == processedCDRs[fileIdx].msisdn
     IN  /\ IF HasKey(nodes, msisdn)
            THEN UNCHANGED <<nodes, nodeOrder>>
            ELSE /\ nodes' = nodes @@ (msisdn :> NewCdrNode(msisdn))
                 /\ nodeOrder' = Append(nodeOrder, msisdn)
         /\ contactSet' = <<>>
  /\ recIdx' = 1
  /\ pc' = "fold"
  /\ UNCHANGED <<files, parsed, processedCDRs, fileIdx, edges, edgeOrder,
                 contacts, result, error>>
  /\ UNCHANGED <<cdrVars, fnVars, uiVars>>

\* processedCDRs.forEach, head of the callback: the holder node
StartFile ==
  /\ pc = "build"
  /\ fileIdx <= Len(processedCDRs)
  /\ LET msisdn == processedCDRs[fileIdx].msisdn
     IN  /\ IF HasKey(nodes, msisdn)
            THEN UNCHANGED <<nodes, nodeOrder>>
            ELSE /\ nodes' = nodes @@ (msisdn :> NewCdrNode(msisdn))
                 /\ nodeOrder' = Append(nodeOrder, msisdn)
         /\ contactSet' = IF HasKey(contacts, msisdn) THEN contacts[msisdn]
                          ELSE <<>>
  /\ recIdx' = 1
  /\ pc' = "fold"
  /\ UNCHANGED <<files, parsed, processedCDRs, fileIdx, edges, edgeOrder,
                 contacts, result, error>>
  /\ UNCHANGED <<cdrVars, fnVars, uiVars>>

\* mapping.forEach callback for one record
FoldRecord ==
  /\ pc = "fold"
  /\ recIdx <= Len(processedCDRs[fileIdx].mapping)
  /\ recIdx' = recIdx + 1
  /\ LET msisdn == processedCDRs[fileIdx].msisdn
         record == processedCDRs[fileIdx].mapping[recIdx]
         bParty == record.BParty
         duration == record.Duration
         callType == record.CallType
         time == StrOr(record.Time, "12:00")
         hour == RecordHour(time)
         key == FindEdgeKey(edges, msisdn, bParty)
         n1 == [nodes EXCEPT ![msisdn] =
                  UpdateCdrNode(@, duration, callType, hour)]
         n2 == IF HasKey(n1, bParty) THEN n1
               ELSE n1 @@ (bParty :> NewBPartyNode(bParty))
     IN  IF bParty = "" \/ bParty = msisdn
         THEN UNCHANGED <<nodes, nodeOrder, edges, edgeOrder, contactSet>>
         ELSE /\ contactSet' = SeqAdd(contactSet, bParty)
              /\ nodes' = [n2 EXCEPT ![bParty] = UpdateBPartyNode(@, duration)]
              /\ nodeOrder' = IF HasKey(n1, bParty) THEN nodeOrder
                              ELSE Append(nodeOrder, bParty)
              /\ IF key = ""
                 THEN /\ edges' = edges @@ (EdgeId(msisdn, bParty) :>
                                     NewEdge(msisdn, bParty, duration, hour))
                      /\ edgeOrder' = Append(edgeOrder, EdgeId(msisdn, bParty))
                 ELSE /\ edges' = [edges EXCEPT ![key] =
                                     UpdateEdge(@, duration, hour)]
                      /\ edgeOrder' = edgeOrder
  /\ UNCHANGED <<files, parsed, processedCDRs, pc, fileIdx, contacts, result,
                 error>>
  /\ UNCHANGED <<cdrVars, fnVars, uiVars>>

\* cdrNode.uniqueContacts = contactSet.size and the average duration
FinishCdrNode(node, size) ==
  [node EXCEPT !.uniqueContacts = size,
               !.metadata.avgCallDuration =
                  IF node.callCount > 0
                  THEN Frac(node.totalDuration, node.callCount)
                  ELSE Frac(0, 1)]

\* tail of the forEach callback: contacts, uniqueContacts, avgCallDuration
FinishFile ==
  /\ pc = "fold"
  /\ recIdx > Len(processedCDRs[fileIdx].mapping)
  /\ LET msisdn == processedCDRs[fileIdx].msisdn
     IN  /\ contacts' = IF HasKey(contacts, msisdn)
                        THEN [contacts EXCEPT ![msisdn] = contactSet]
                        ELSE contacts @@ (msisdn :> contactSet)
         /\ nodes' = [nodes EXCEPT ![msisdn] =
              FinishCdrNode(@, Len(contactSet))]
  /\ fileIdx' = fileIdx + 1
  /\ pc' = "build"
  /\ UNCHANGED <<files, parsed, processedCDRs, recIdx, nodeOrder, edges,
                 edgeOrder, contactSet, result, error>>
  /\ UNCHANGED <<cdrVars, fnVars, uiVars>>

\* buildNetworkFromCDRs has returned: allNodes.size === 0 throws
BuildReturn ==
  /\ pc = "build"
  /\ fileIdx > Len(processedCDRs)
  /\ IF Cardinality(DOMAIN nodes) = 0
     THEN /\ pc' = "failed"
          /\ error' = ErrorPrefix \o NoNodesMessage
     ELSE /\ pc' = "centralities"
          /\ error' = error
  /\ UNCHANGED <<files, parsed, processedCDRs, fileIdx, recIdx, nodes,
                 nodeOrder, edges, edgeOrder, contacts, contactSet, result>>
  /\ UNCHANGED <<cdrVars, fnVars, uiVars>>

CalculateCentralitiesStep ==
  /\ pc = "centralities"
  /\ nodes' = CalculateCentralities(nodes, edges, edgeOrder)
  /\ pc' = "classify"
  /\ UNCHANGED <<files, parsed, processedCDRs, fileIdx, recIdx, nodeOrder,
                 edges, edgeOrder, contacts, contactSet, result, error>>
  /\ UNCHANGED <<cdrVars, fnVars, uiVars>>

ClassifyRolesStep ==
  /\ pc = "classify"
  /\ nodes' = ClassifyRoles(nodes, nodeOrder)
  /\ pc' = "assemble"
  /\ UNCHANGED <<files, parsed, processedCDRs, fileIdx, recIdx, nodeOrder,
                 edges, edgeOrder, contacts, contactSet, result, error>>
  /\ UNCHANGED <<cdrVars, fnVars, uiVars>>

NodeValues(ns, order) == [i \in 1..Len(order) |-> ns[order[i]]]

NetworkData(ns, nOrder, es, eOrder) ==
  [nodes |-> NodeValues(ns, nOrder), edges |-> NodeValues(es, eOrder),
   statistics |-> GenerateNetworkStatistics(ns, es)]

Restrict(m, keys) == [k \in keys |-> m[k]]

\* node.metadata.nightCalls / Math.max(1, node.callCount) > 0.6
HighNightActivity(node) ==
  10 * node.metadata.nightCalls > 6 * Max(1, node.callCount)

\* variant: an edge is internal when one of its endpoints is an account
AnalysisResult_EitherEndpoint(cdrs, ns, nOrder, es, eOrder) ==
  LET cdrNumbers == CdrNumbers(cdrs)
      internalIds == SelectSeq(nOrder, LAMBDA id : id \in cdrNumbers)
      internalEdgeIds ==
        SelectSeq(eOrder, LAMBDA k : es[k].source \in cdrNumbers
                                     \/ es[k].target \in cdrNumbers)
      internalNodes == Restrict(ns, {internalIds[i] : i \in 1..Len(internalIds)})
      internalEdges ==
        Restrict(es, {internalEdgeIds[i] : i \in 1..Len(internalEdgeIds)})
      commonContacts == FindCommonContacts(cdrs)
  IN  [returned |-> TRUE,
       internalNetwork |->
         NetworkData(internalNodes, internalIds, internalEdges, internalEdgeIds),
       fullNetwork |-> NetworkData(ns, nOrder, es, eOrder),
       commonContacts |-> commonContacts,
       suspiciousPatterns |->
         <<[type |-> "High Night Activity",
            nodes |-> SelectSeq(nOrder, LAMBDA id : HighNightActivity(ns[id])),
            severity |-> "high"],
           [type |-> "Common External Contacts",
            nodes |-> commonContacts,
            severity |-> "medium"]>>]

\* the internal and full networks, the common contacts and the patterns
AnalysisResult(cdrs, ns, nOrder, es, eOrder) ==
  LET cdrNumbers == CdrNumbers(cdrs)
      internalIds == SelectSeq(nOrder, LAMBDA id : id \in cdrNumbers)
      internalEdgeIds ==
        SelectSeq(eOrder, LAMBDA k : es[k].source \in cdrNumbers
                                     /\ es[k].target \in cdrNumbers)
      internalNodes == Restrict(ns, {internalIds[i] : i \in 1..Len(internalIds)})
      internalEdges ==
        Restrict(es, {internalEdgeIds[i] : i \in 1..Len(internalEdgeIds)})
      commonContacts == FindCommonContacts(cdrs)
  IN  [returned |-> TRUE,
       internalNetwork |->
         NetworkData(internalNodes, internalIds, internalEdges, internalEdgeIds),
       fullNetwork |-> NetworkData(ns, nOrder, es, eOrder),
       commonContacts |-> commonContacts,
       suspiciousPatterns |->
         <<[type |-> "High Night Activity",
            nodes |-> SelectSeq(nOrder, LAMBDA id : HighNightActivity(ns[id])),
            severity |-> "high"],
           [type |-> "Common External Contacts",
            nodes |-> commonContacts,
            severity |-> "medium"]>>]

Assemble ==
  /\ pc = "assemble"
  /\ result' = AnalysisResult(processedCDRs, nodes, nodeOrder, edges, edgeOrder)
  /\ pc' = "done"
  /\ UNCHANGED <<files, parsed, processedCDRs, fileIdx, recIdx, nodes,
                 nodeOrder, edges, edgeOrder, contacts, contactSet, error>>
  /\ UNCHANGED <<cdrVars, fnVars, uiVars>>

Next ==
  \/ Start
  \/ \E i \in 1..Len(files) : ParseComplete(i)
  \/ ProcessFiles
  \/ StartFile
  \/ FoldRecord
  \/ FinishFile
  \/ BuildReturn
  \/ CalculateCentralitiesStep
  \/ ClassifyRolesStep
  \/ Assemble

Spec == Init /\ [][Next]_vars

(***************************************************************************)
(* Properties of the network pipeline                                      *)
(***************************************************************************)
\* <<file, record>> positions of the records the builder has folded so far
FoldedPositions ==
  UNION { { <<f, r>> : r \in { q \in 1..Len(processedCDRs[f].mapping) :
                                 \/ f < fileIdx
                                 \/ f = fileIdx /\ pc = "fold" /\ q < recIdx } }
          : f \in 1..Len(processedCDRs) }

AccountAt(p) == processedCDRs[p[1]].msisdn
RecordAt(p) == processedCDRs[p[1]].mapping[p[2]]

\* number of folded records between the unordered pair {a, b}
PairCount(a, b) ==
  Cardinality({p \in FoldedPositions : {AccountAt(p), RecordAt(p).BParty} = {a, b}})

EdgesBetween(a, b) ==
  {k \in DOMAIN edges : {edges[k].source, edges[k].target} = {a, b}}

\* C1: for any two distinct numbers A and B, at every point of the fold the
\* edge map holds exactly one edge with endpoints {A, B} as soon as a record
\* between them was folded (none before), and its callCount is the number of
\* folded records whose {account, B Party} is {A, B}, whichever side was the
\* account.
C1_EdgeSymmetry ==
  \A a \in Numbers, b \in Numbers :
    a # b =>
      IF PairCount(a, b) = 0 THEN EdgesBetween(a, b) = {}
      ELSE /\ Cardinality(EdgesBetween(a, b)) = 1
           /\ \A k \in EdgesBetween(a, b) : edges[k].callCount = PairCount(a, b)

\* the build is over, and one pair was folded once from each side
C1_Witness ==
  /\ pc = "done"
  /\ \E p \in FoldedPositions, q \in FoldedPositions :
       /\ AccountAt(p) # AccountAt(q)
       /\ RecordAt(p).BParty = AccountAt(q)
       /\ RecordAt(q).BParty = AccountAt(p)
       /\ \E k \in DOMAIN edges : edges[k].callCount = 2

AssignedTypes == {"kingpin", "middleman", "peddler"}

\* C2: once the analysis has returned, every node whose id is the account
\* number of an uploaded file has one of the roles kingpin, middleman or
\* peddler, and none is left external.
C2_InternalNodesHaveRole ==
  pc = "done" =>
    \A id \in CdrNumbers(processedCDRs) :
      HasKey(nodes, id) /\ nodes[id].type \in AssignedTypes

\* the accounts in whose record sets c occurs as a counterparty
AccountsWithContact(c) ==
  { processedCDRs[f].msisdn : f \in
      { g \in 1..Len(processedCDRs) :
          /\ processedCDRs[g].msisdn # c
          /\ \E r \in 1..Len(processedCDRs[g].mapping) :
               processedCDRs[g].mapping[r].BParty = c } }

SeqToSet(s) == {s[i] : i \in 1..Len(s)}

\* C3: given two or more files, the common contacts returned are exactly the
\* numbers that are a counterparty for at least 2 distinct accounts.
C3_CommonContacts ==
  (pc = "done" /\ Len(processedCDRs) >= 2) =>
    SeqToSet(result.commonContacts) =
      {c \in Numbers : Cardinality(AccountsWithContact(c)) >= 2}

\* the hour on the clock of a time hh:mm
ClockHour(time) == ParseInt(SubSeq(time, 1, 2)).val

NightByRule(time) == ClockHour(time) >= 18 \/ ClockHour(time) < 6

\* the folded records of account a that the fold did not skip
CountedPositions(a) ==
  {p \in FoldedPositions :
     /\ AccountAt(p) = a
     /\ RecordAt(p).BParty # ""
     /\ RecordAt(p).BParty # a}

\* C5: every folded record whose hour h satisfies h >= 18 or h < 6, and no
\* other, counts as a night call of its account node and of its edge, for
\* every hour including h = 0.
C5_NightCallsEveryHour ==
  /\ \A a \in Accounts :
       HasKey(nodes, a) =>
         nodes[a].metadata.nightCalls =
           Cardinality({p \in CountedPositions(a) : NightByRule(RecordAt(p).Time)})
  /\ \A k \in DOMAIN edges :
       edges[k].metadata.nightCalls =
         Cardinality({p \in FoldedPositions :
            /\ {AccountAt(p), RecordAt(p).BParty} = {edges[k].source, edges[k].target}
            /\ NightByRule(RecordAt(p).Time)})

\* C9: when at least one file was given and no file has a single accepted
\* row, the analysis ends with the structural error and returns nothing.
C9_NoValidRecordsError ==
  ( /\ pc \in {"done", "failed"}
    /\ Len(files) >= 1
    /\ \A f \in 1..Len(processedCDRs) : processedCDRs[f].mapping = <<>> )
  => ( /\ pc = "failed"
       /\ error = ErrorPrefix \o NoNodesMessage
       /\ result = NoResult )

\* C10: with an empty file list nothing is parsed or built, and the run ends
\* with the single error 'Failed to analyze CDR network: No files provided
\* for analysis' and without a result.
C10_EmptyFileList ==
  (Len(files) = 0 /\ pc # "start") =>
    /\ pc = "failed"
    /\ error = "Failed to analyze CDR network: No files provided for analysis"
    /\ result = NoResult
    /\ processedCDRs = <<>>
    /\ nodes = EmptyMap
    /\ edges = EmptyMap

C10_Witness == Len(files) = 0 /\ pc = "failed" /\ error # ""

(***************************************************************************)
(* cdrProcessor.ts: provider detection and account number extraction       *)
(***************************************************************************)
UpperChar(c) == IF c \in DOMAIN UpperOf THEN UpperOf[c] ELSE c

RECURSIVE ToUpperCase(_)
ToUpperCase(s) ==
  IF Len(s) = 0 THEN ""
  ELSE IF Len(s) = 1 THEN UpperChar(s)
  ELSE LET h == Len(s) \div 2
       IN  ToUpperCase(SubSeq(s, 1, h)) \o ToUpperCase(SubSeq(s, h + 1, Len(s)))

RECURSIVE TrimEnd(_)
TrimEnd(s) ==
  IF Len(s) > 0 /\ IsSpace(CharAt(s, Len(s)))
  THEN TrimEnd(SubSeq(s, 1, Len(s) - 1)) ELSE s

Trim(s) == TrimEnd(TrimStart(s))

\* seq.join(sep)
RECURSIVE Join(_, _)
Join(ss, sep) ==
  IF Len(ss) = 0 THEN ""
  ELSE IF Len(ss) = 1 THEN ss[1]
  ELSE ss[1] \o sep \o Join(Tail(ss), sep)

\* Object.values(row).join(' '); a row is the sequence of its field values
RowText(row) == Join(row, " ")

ProviderOrder == <<"AIRTEL", "BSNL", "JIO", "VODAFONE">>

Identifiers(provider) ==
  CASE provider = "AIRTEL" ->
         <<"BHARTI AIRTEL LIMITED", "Call Details of Mobile No",
           "Call Details of IMEI No">>
    [] provider = "BSNL" -> <<"Search Criteria : MSISDN", "Search Value :">>
    [] provider = "JIO" ->
         <<"Ticket Number :",
           "Input Value (MSISDN/B PARTY/IMEI/IMSI/CELL ID)">>
    [] provider = "VODAFONE" ->
         <<"Vodafone Idea Call Data Records", "MSISDN : -", "IMEI : -">>

\* data.slice(0, n)
Slice(data, n) == SubSeq(data, 1, IF Len(data) < n THEN Len(data) ELSE n)

HasIdentifier(searchText, provider) ==
  \E k \in 1..Len(Identifiers(provider)) :
    Includes(searchText, ToUpperCase(Identifiers(provider)[k]))

\* a null or undefined row of the parsed sheet
NullRow == <<"\\null">>

\* the rows of the head that detectProvider turns into text
HeadRows == 20

\* if (!row) return ''; otherwise the values of the row joined by blanks (the
\* rows drawn hold no null value, so the filter keeps every value)
HeadRowText(row) == IF row = NullRow THEN "" ELSE RowText(row)

\* variant: the search text is compared as it stands, without upper-casing
DetectProvider_CaseSensitive(data) ==
  LET head == Slice(data, HeadRows)
      searchText == Join([i \in 1..Len(head) |-> HeadRowText(head[i])], " ")
      hits == {k \in 1..Len(ProviderOrder) :
                 \E j \in 1..Len(Identifiers(ProviderOrder[k])) :
                   Includes(searchText, Identifiers(ProviderOrder[k])[j])}
  IN  IF hits = {} THEN "VODAFONE"
      ELSE ProviderOrder[CHOOSE k \in hits : \A j \in hits : k <= j]

DetectProvider(data) ==
  LET head == Slice(data, HeadRows)
      searchText ==
        ToUpperCase(Join([i \in 1..Len(head) |-> HeadRowText(head[i])], " "))
      hits == {k \in 1..Len(ProviderOrder) : HasIdentifier(searchText, ProviderOrder[k])}
  IN  IF hits = {} THEN "VODAFONE"
      ELSE ProviderOrder[CHOOSE k \in hits : \A j \in hits : k <= j]

CharAtSafe(t, i) == IF i >= 1 /\ i <= Len(t) THEN CharAt(t, i) ELSE ""

DigitSet == {CharAt(DigitChars, i) : i \in 1..10}

IsDigit(c) == c \in DigitSet

RECURSIVE SkipSpaces(_, _)
SkipSpaces(t, i) == IF IsSpace(CharAtSafe(t, i)) THEN SkipSpaces(t, i + 1) ELSE i

\* first index at or after i that holds no digit
RECURSIVE DigitRunEnd(_, _)
DigitRunEnd(t, i) == IF IsDigit(CharAtSafe(t, i)) THEN DigitRunEnd(t, i + 1) ELSE i

\* the literal lit stands at position i, whatever the case of the letters
LitAt(t, i, lit) ==
  /\ i + Len(lit) - 1 <= Len(t)
  /\ LowerChar(CharAt(t, i)) = LowerChar(Head(lit))
  /\ ToLowerCase(SubSeq(t, i, i + Len(lit) - 1)) = ToLowerCase(lit)

\* least index j >= i with character c, 0 when there is none
FirstCharPos(t, i, c) ==
  LET S == {j \in i..Len(t) : CharAt(t, j) = c}
  IN  IF S = {} THEN 0 ELSE CHOOSE j \in S : \A k \in S : j <= k

\* (\d+) at position i: the whole run of digits, "" when there is none
DigitsAt(t, i) == SubSeq(t, i, DigitRunEnd(t, i) - 1)

\* '(\d+)' at position q: quote, digits, quote
QuotedDigitsAt(t, q) ==
  IF q >= 1 /\ CharAtSafe(t, q) = "'" /\ IsDigit(CharAtSafe(t, q + 1))
     /\ CharAtSafe(t, DigitRunEnd(t, q + 1)) = "'"
  THEN DigitsAt(t, q + 1) ELSE ""

\* (\d{n}) at position i
NDigitsAt(t, i, n) ==
  IF DigitRunEnd(t, i) - i >= n THEN SubSeq(t, i, i + n - 1) ELSE ""

\* the capture of the leftmost match, Try(i) being the capture of a match
\* that starts at i ("" when there is none)
LeftmostMatch(t, Try(_)) ==
  LET S == {i \in 1..Len(t) : Try(i) # ""}
  IN  IF S = {} THEN "" ELSE Try(CHOOSE i \in S : \A k \in S : i <= k)

\* /lit\s*:\s*-\s*(\d+)/i
MatchColonDash(t, lit) ==
  LeftmostMatch(t, LAMBDA i :
    IF ~LitAt(t, i, lit) THEN ""
    ELSE LET c == SkipSpaces(t, i + Len(lit))
             d == SkipSpaces(t, c + 1)
         IN  IF CharAtSafe(t, c) = ":" /\ CharAtSafe(t, d) = "-"
             THEN DigitsAt(t, SkipSpaces(t, d + 1)) ELSE "")

\* /lit\s*:\s*(\d+)/i
MatchColon(t, lit) ==
  LeftmostMatch(t, LAMBDA i :
    IF ~LitAt(t, i, lit) THEN ""
    ELSE LET c == SkipSpaces(t, i + Len(lit))
         IN  IF CharAtSafe(t, c) = ":"
             THEN DigitsAt(t, SkipSpaces(t, c + 1)) ELSE "")

\* /lit'(\d+)'/i, the literal ending just before the quote
MatchQuoted(t, lit) ==
  LeftmostMatch(t, LAMBDA i :
    IF ~LitAt(t, i, lit) THEN "" ELSE QuotedDigitsAt(t, i + Len(lit)))

\* /lit.*?'(\d+)'/i: the first quote after the literal that opens a match
MatchLazyQuoted(t, lit) ==
  LeftmostMatch(t, LAMBDA i :
    IF ~LitAt(t, i, lit) THEN ""
    ELSE LET S == {q \in (i + Len(lit))..Len(t) : QuotedDigitsAt(t, q) # ""}
         IN  IF S = {} THEN ""
             ELSE QuotedDigitsAt(t, CHOOSE q \in S : \A k \in S : q <= k))

\* '(\d{15})' at position q
Quoted15At(t, q) ==
  IF CharAtSafe(t, q) = "'" /\ DigitRunEnd(t, q + 1) = q + 16
     /\ CharAtSafe(t, q + 16) = "'"
  THEN SubSeq(t, q + 1, q + 15) ELSE ""

\* /lit.*?'(\d{15})'/i
MatchLazyQuoted15(t, lit) ==
  LeftmostMatch(t, LAMBDA i :
    IF ~LitAt(t, i, lit) THEN ""
    ELSE LET S == {q \in (i + Len(lit))..Len(t) : Quoted15At(t, q) # ""}
         IN  IF S = {} THEN ""
             ELSE Quoted15At(t, CHOOSE q \in S : \A k \in S : q <= k))

\* /lit.*?(\d{15})/i
MatchLazy15(t, lit) ==
  LeftmostMatch(t, LAMBDA i :
    IF ~LitAt(t, i, lit) THEN ""
    ELSE LET S == {j \in (i + Len(lit))..Len(t) : NDigitsAt(t, j, 15) # ""}
         IN  IF S = {} THEN ""
             ELSE NDigitsAt(t, CHOOSE j \in S : \A k \in S : j <= k, 15))

\* /lit[^']*'(\d+)'/i: only the first quote after the literal can match
MatchToQuote(t, lit) ==
  LeftmostMatch(t, LAMBDA i :
    IF ~LitAt(t, i, lit) THEN ""
    ELSE QuotedDigitsAt(t, FirstCharPos(t, i + Len(lit), "'")))

\* /lit[^:]*:\s*(\d+)/i
MatchToColon(t, lit) ==
  LeftmostMatch(t, LAMBDA i :
    IF ~LitAt(t, i, lit) THEN ""
    ELSE LET c == FirstCharPos(t, i + Len(lit), ":")
         IN  IF c = 0 THEN "" ELSE DigitsAt(t, SkipSpaces(t, c + 1)))

\* /lit[^:]*:[^-]*-\s*(\d+)/i
MatchToColonDash(t, lit) ==
  LeftmostMatch(t, LAMBDA i :
    IF ~LitAt(t, i, lit) THEN ""
    ELSE LET c == FirstCharPos(t, i + Len(lit), ":")
             d == IF c = 0 THEN 0 ELSE FirstCharPos(t, c + 1, "-")
         IN  IF d = 0 THEN "" ELSE DigitsAt(t, SkipSpaces(t, d + 1)))

\* a || b for two captures
FirstOf(a, b) == IF a # "" THEN a ELSE b

ImeiPattern(provider, t) ==
  CASE provider = "AIRTEL" -> MatchQuoted(t, "Call Details of IMEI No ")
    [] provider = "BSNL" -> MatchLazy15(t, "IMEI")
    [] provider = "JIO" -> MatchLazyQuoted15(t, "Input Value")
    [] provider = "VODAFONE" -> MatchColonDash(t, "IMEI")

MsisdnPattern(provider, t) ==
  CASE provider = "AIRTEL" -> MatchQuoted(t, "Call Details of Mobile No ")
    [] provider = "BSNL" -> MatchColon(t, "Search Value")
    [] provider = "JIO" -> MatchLazyQuoted(t, "Input Value")
    [] provider = "VODAFONE" -> MatchColonDash(t, "MSISDN")

FallbackPattern(provider, t) ==
  CASE provider = "AIRTEL" ->
         FirstOf(MatchToQuote(t, "Mobile No"), MatchToQuote(t, "IMEI No"))
    [] provider = "BSNL" -> MatchToColon(t, "Search Value")
    [] provider = "JIO" -> MatchToQuote(t, "Input Value")
    [] provider = "VODAFONE" ->
         FirstOf(MatchToColonDash(t, "MSISDN"), MatchToColonDash(t, "IMEI"))

\* what one scanned row yields: IMEI pattern, MSISDN pattern, then fallback
RowCdrNumber(provider, t) ==
  IF Trim(t) = "" THEN ""
  ELSE FirstOf(ImeiPattern(provider, t),
               FirstOf(MsisdnPattern(provider, t), FallbackPattern(provider, t)))

\* the rows extractMSISDN scans
ScannedRows == 25

\* the first scanned row that yields a number decides; null rows are skipped
ExtractMSISDN(data, provider) ==
  LET head == Slice(data, ScannedRows)
      S == {i \in 1..Len(head) : RowCdrNumber(provider, HeadRowText(head[i])) # ""}
  IN  IF S = {} THEN "Unknown"
      ELSE RowCdrNumber(provider, HeadRowText(head[CHOOSE i \in S : \A k \in S : i <= k]))

(***************************************************************************)
(* cdrProcessor.ts: data region, field mapping and the report sheets       *)
(***************************************************************************)
DataStartRow(provider) ==
  CASE provider = "AIRTEL" -> 7
    [] provider = "BSNL" -> 7
    [] provider = "VODAFONE" -> 12

JioStartMobile == 19
JioStartImei == 11

GetDataStartIndex(provider, isImei) ==
  IF provider = "JIO"
  THEN (IF isImei THEN JioStartImei ELSE JioStartMobile)
  ELSE DataStartRow(provider)

ParseCallDuration_NaNSentinel(duration) ==
  IF duration = "" \/ duration = "-" THEN 0
  ELSE IF ParseInt(duration).nan THEN -1 ELSE ParseInt(duration).val

ParseCallDuration(duration) ==
  IF duration = "" \/ duration = "-" THEN 0
  ELSE IF ParseInt(duration).nan THEN 0 ELSE ParseInt(duration).val

\* variant: the day starts after 06:59
IsNightTime_ThroughSix(time) ==
  /\ time # ""
  /\ LET hour == ParseInt(SplitFirst(time, ":"))
     IN  ~hour.nan /\ (hour.val >= 18 \/ hour.val <= 6)

IsNightTime(time) ==
  /\ time # ""
  /\ LET hour == ParseInt(SplitFirst(time, ":"))
     IN  ~hour.nan /\ (hour.val >= 18 \/ hour.val < 6)

\* getFieldValue: the value of the index-th key, '' when absent or empty
GetFieldValue(row, index) == IF index < Len(row) THEN row[index + 1] ELSE ""

FieldMappings(provider) ==
  CASE provider = "AIRTEL" ->
         [targetNo |-> 0, callType |-> 1, toc |-> 2, bParty |-> 3, lrn |-> 4,
          lrnTsp |-> 5, date |-> 6, time |-> 7, duration |-> 8,
          firstCgiLatLong |-> 9, firstCgi |-> 10, lastCgiLatLong |-> 11,
          lastCgi |-> 12, smsc |-> 13, serviceType |-> 14, imei |-> 15,
          imsi |-> 16, callForward |-> 17, roaming |-> 18, mscId |-> 19]
    [] provider = "BSNL" ->
         [slNo |-> 0, mobileNo |-> 1, callType |-> 2, toc |-> 3,
          otherParty |-> 4, lrnBParty |-> 5, lrnDesc |-> 6, callDate |-> 7,
          callTime |-> 8, duration |-> 9, firstCellDesc |-> 10,
          firstCellId |-> 11, lastCellDesc |-> 12, lastCellId |-> 13,
          smsc |-> 14, serviceType |-> 15, imei |-> 16, imsi |-> 17,
          originalParty |-> 18, circle |-> 19, mscId |-> 20]
    [] provider = "JIO" ->
         [callingParty |-> 0, calledParty |-> 1, callForwarding |-> 2,
          lrnCalled |-> 3, callDate |-> 4, callTime |-> 5, callTermTime |-> 6,
          duration |-> 7, firstCellId |-> 8, lastCellId |-> 9, callType |-> 10,
          smsCenter |-> 11, imei |-> 12, imsi |-> 13, roamingCircle |-> 14]
    [] OTHER ->
         [targetNo |-> 0, callType |-> 1, toc |-> 2, bParty |-> 3,
          lrnBParty |-> 4, lrnTranslation |-> 5, callDate |-> 6, callTime |-> 7,
          duration |-> 8, firstBts |-> 9, firstCellGlobal |-> 10,
          lastBts |-> 11, lastCellGlobal |-> 12, smsCentre |-> 13,
          serviceType |-> 14, imei |-> 15, imsi |-> 16, callForward |-> 17,
          roaming |-> 18, mscId |-> 19]

\* mapping.a || mapping.b || ... || default: absent and 0 are both falsy
RECURSIVE IndexOr(_, _, _)
IndexOr(mapping, names, default) ==
  IF Len(names) = 0 THEN default
  ELSE IF Head(names) \in DOMAIN mapping /\ mapping[Head(names)] # 0
  THEN mapping[Head(names)]
  ELSE IndexOr(mapping, Tail(names), default)

MapProviderFields(row, provider) ==
  LET mapping == FieldMappings(provider)
      F(names, default) == GetFieldValue(row, IndexOr(mapping, names, default))
  IN  [targetNo |-> F(<<"targetNo">>, 0),
       callType |-> F(<<"callType">>, 1),
       bParty |-> F(<<"bParty">>, 3),
       date |-> F(<<"callDate", "date">>, 6),
       time |-> F(<<"callTime", "time">>, 7),
       duration |-> F(<<"duration">>, 8),
       firstCellId |-> F(<<"firstCellId", "firstCgi", "firstCellGlobal">>, 10),
       lastCellId |-> F(<<"lastCellId", "lastCgi", "lastCellGlobal">>, 12),
       imei |-> F(<<"imei">>, 15),
       imsi |-> F(<<"imsi">>, 16),
       roaming |-> F(<<"roaming", "roamingCircle">>, 18),
       lrn |-> F(<<"lrn", "lrnBParty">>, 4),
       callForward |-> F(<<"callForward", "callForwarding">>, 17),
       serviceType |-> F(<<"serviceType">>, 14),
       firstBts |-> F(<<"firstBts", "firstCellDesc">>, 9),
       lastBts |-> F(<<"lastBts", "lastCellDesc">>, 11)]

\* variant: the header-repeat tokens are not looked for
HasData_AnyText(row) ==
  \E k \in 1..Len(row) :
    /\ row[k] # ""
    /\ Trim(row[k]) # ""

\* the row filter of processCDRData: some field holds data
HasData(row) ==
  \E k \in 1..Len(row) :
    /\ row[k] # ""
    /\ Trim(row[k]) # ""
    /\ ~Includes(row[k], "Target")
    /\ ~Includes(row[k], "PARTY")
    /\ ~Includes(row[k], "Call Type")

\* the rows from dataStartIndex on that are objects and hold data, in order
ValidData(data, dataStartIndex) ==
  SelectSeq(SubSeq(data, dataStartIndex + 1, Len(data)),
            LAMBDA row : row # NullRow /\ HasData(row))

IsImeiData(data, name) ==
  \/ Includes(ToLowerCase(name), "imei")
  \/ \E i \in 1..Len(data) : Includes(ToLowerCase(RowText(data[i])), "imei")

\* one row of the MAPPING sheet (the constant empty columns are left out)
MappingRow(row, provider, msisdn) ==
  LET mapped == MapProviderFields(row, provider)
  IN  [CdrNo |-> msisdn, BParty |-> mapped.bParty, Date |-> mapped.date,
       Time |-> mapped.time, Duration |-> ParseCallDuration(mapped.duration),
       CallType |-> mapped.callType, FirstCellID |-> mapped.firstCellId,
       FirstCellIDAddress |-> mapped.firstBts, LastCellID |-> mapped.lastCellId,
       LastCellIDAddress |-> mapped.lastBts, IMEI |-> mapped.imei,
       IMSI |-> mapped.imsi, Roaming |-> mapped.roaming,
       Circle |-> mapped.roaming, Operator |-> provider,
       NumTmp |-> mapped.targetNo, LRN |-> mapped.lrn,
       CallForward |-> mapped.callForward, Type |-> mapped.serviceType,
       Location |-> mapped.firstBts,
       TimeHH |-> IF mapped.time # "" THEN SplitFirst(mapped.time, ":") ELSE ""]

GenerateMapping(data, provider, msisdn) ==
  [i \in 1..Len(data) |-> MappingRow(data[i], provider, msisdn)]

RowIsNight(row, provider) == IsNightTime(MapProviderFields(row, provider).time)

\* a row of the NIGHT MAPPING and DAY MAPPING sheets: the columns of the
\* MAPPING sheet with AreaLocation and DateTime
TimedMappingRow(row, provider, msisdn) ==
  LET mapped == MapProviderFields(row, provider)
  IN  MappingRow(row, provider, msisdn) @@
        [AreaLocation |-> mapped.firstBts,
         DateTime |-> mapped.date \o " " \o mapped.time]

GenerateNightMapping(data, provider, msisdn) ==
  LET nightData == SelectSeq(data, LAMBDA row : RowIsNight(row, provider))
  IN  [i \in 1..Len(nightData) |-> TimedMappingRow(nightData[i], provider, msisdn)]

\* variant: the day sheet takes the rows of the hours 6 to 17
GenerateDayMapping_DayHours(data, provider, msisdn) ==
  LET HourOfRow(row) ==
        ParseInt(SplitFirst(MapProviderFields(row, provider).time, ":"))
      dayData == SelectSeq(data, LAMBDA row :
                   /\ ~HourOfRow(row).nan
                   /\ HourOfRow(row).val >= 6 /\ HourOfRow(row).val < 18)
  IN  [i \in 1..Len(dayData) |-> TimedMappingRow(dayData[i], provider, msisdn)]

GenerateDayMapping(data, provider, msisdn) ==
  LET dayData == SelectSeq(data, LAMBDA row : ~RowIsNight(row, provider))
  IN  [i \in 1..Len(dayData) |-> TimedMappingRow(dayData[i], provider, msisdn)]

\* a <= b for two digit strings of the same length
RECURSIVE DigitsLeq(_, _)
DigitsLeq(a, b) ==
  IF Len(a) = 0 THEN TRUE
  ELSE IF Head(a) = Head(b) THEN DigitsLeq(Tail(a), Tail(b))
  ELSE DigitValue(Head(a)) < DigitValue(Head(b))

\* a <= b for two numerals without leading zeros
NumeralLeq(a, b) == Len(a) < Len(b) \/ (Len(a) = Len(b) /\ DigitsLeq(a, b))

\* the largest array index, 2^32 - 2
MaxArrayIndex == "4294967294"

\* a property name that JavaScript treats as an array index ("0", "17", ...)
IsArrayIndex(key) ==
  /\ Len(key) > 0
  /\ \A i \in 1..Len(key) : IsDigit(CharAt(key, i))
  /\ (Len(key) = 1 \/ Head(key) # "0")
  /\ NumeralLeq(key, MaxArrayIndex)

\* the keys of S ordered by ascending numeric value
RECURSIVE SortByValue(_)
SortByValue(S) ==
  IF S = {} THEN <<>>
  ELSE LET m == CHOOSE k \in S : \A j \in S : NumeralLeq(k, j)
       IN  <<m>> \o SortByValue(S \ {m})

\* Object.entries order: array index keys ascending, then insertion order
ObjectKeys(inserted) ==
  SortByValue({k \in SeqToSet(inserted) : IsArrayIndex(k)})
    \o SelectSeq(inserted, LAMBDA k : ~IsArrayIndex(k))

IsOutType(callType) == Includes(ToLowerCase(callType), "out")
IsInType(callType) == Includes(ToLowerCase(callType), "in")
IsSms(serviceType) == Includes(ToLowerCase(serviceType), "sms")

CountSeq(s, Test(_)) == Len(SelectSeq(s, Test))

\* the SUMMARY row of one counterparty, calls being its mapped rows
SummaryRow(bParty, calls, provider, msisdn) ==
  LET totalCalls == Len(calls)
      outCalls == CountSeq(calls, LAMBDA m : IsOutType(m.callType))
      inCalls == CountSeq(calls, LAMBDA m :
                   ~IsOutType(m.callType) /\ IsInType(m.callType))
  IN  [CdrNo |-> msisdn, BParty |-> bParty, Provider |-> provider,
       TotalCalls |-> totalCalls, OutCalls |-> outCalls, InCalls |-> inCalls,
       OutSms |-> CountSeq(calls, LAMBDA m :
                    IsSms(m.serviceType) /\ IsOutType(m.callType)),
       InSms |-> CountSeq(calls, LAMBDA m :
                   IsSms(m.serviceType) /\ ~IsOutType(m.callType)
                   /\ IsInType(m.callType)),
       OtherCalls |-> totalCalls - outCalls - inCalls,
       TotalDuration |->
         SeqSum([i \in 1..Len(calls) |-> ParseCallDuration(calls[i].duration)]),
       TotalDays |-> Cardinality({calls[i].date : i \in 1..Len(calls)}),
       TotalCellIds |-> Cardinality({calls[i].firstCellId : i \in 1..Len(calls)}),
       TotalImei |-> Cardinality({calls[i].imei : i \in 1..Len(calls)}),
       TotalImsi |-> Cardinality({calls[i].imsi : i \in 1..Len(calls)})]

\* one row per counterparty, in Object.entries order (the first and last
\* call columns are left out)
GenerateSummary(data, provider, msisdn) ==
  LET mapped == [i \in 1..Len(data) |-> MapProviderFields(data[i], provider)]
      keys == ObjectKeys(Dedupe([i \in 1..Len(mapped) |-> mapped[i].bParty]))
  IN  [k \in 1..Len(keys) |->
         SummaryRow(keys[k], SelectSeq(mapped, LAMBDA m : m.bParty = keys[k]),
                    provider, msisdn)]

\* Array.prototype.sort with the comparator (Number(b) || 0) - (Number(a) || 0):
\* descending by value and stable
RECURSIVE SortDescending(_)
SortDescending(entries) ==
  IF Len(entries) = 0 THEN <<>>
  ELSE LET sorted == SortDescending(SubSeq(entries, 1, Len(entries) - 1))
           e == entries[Len(entries)]
           before == SelectSeq(sorted, LAMBDA x : x.value >= e.value)
           after == SelectSeq(sorted, LAMBDA x : x.value < e.value)
       IN  before \o <<e>> \o after

\* Object.entries of the contacts object of generateMaxCalls and
\* generateMaxDuration: a value per B Party, summed over its rows
ContactEntries(data, provider, Value(_)) ==
  LET mapped == [i \in 1..Len(data) |-> MapProviderFields(data[i], provider)]
      keys == ObjectKeys(Dedupe([i \in 1..Len(mapped) |-> mapped[i].bParty]))
  IN  [k \in 1..Len(keys) |->
         [key |-> keys[k],
          value |-> SeqSum([i \in 1..Len(mapped) |->
                              IF mapped[i].bParty = keys[k]
                              THEN Value(mapped[i]) ELSE 0])]]

GenerateMaxCalls(data, provider, msisdn) ==
  LET sorted == SortDescending(ContactEntries(data, provider, LAMBDA m : 1))
  IN  [k \in 1..Len(sorted) |->
         [CdrNo |-> msisdn, BParty |-> sorted[k].key,
          TotalCalls |-> sorted[k].value, Provider |-> provider]]

GenerateMaxDuration(data, provider, msisdn) ==
  LET sorted == SortDescending(ContactEntries(data, provider,
                   LAMBDA m : ParseCallDuration(m.duration)))
  IN  [k \in 1..Len(sorted) |->
         [CdrNo |-> msisdn, BParty |-> sorted[k].key,
          TotalDuration |-> sorted[k].value, Provider |-> provider]]

\* processCDRData (the sheets modelled: mapping, summary, night and day)
ProcessCDRData(data, name) ==
  LET provider == DetectProvider(data)
      msisdn == ExtractMSISDN(data, provider)
      dataStartIndex == GetDataStartIndex(provider, IsImeiData(data, name))
      validData == ValidData(data, dataStartIndex)
  IN  [returned |-> TRUE, fileName |-> name, msisdn |-> msisdn,
       provider |-> provider,
       mapping |-> GenerateMapping(validData, provider, msisdn),
       summary |-> GenerateSummary(validData, provider, msisdn),
       nightMapping |-> GenerateNightMapping(validData, provider, msisdn),
       dayMapping |-> GenerateDayMapping(validData, provider, msisdn)]

(***************************************************************************)
(* Inputs of processCDRData: header blocks and data rows                   *)
(***************************************************************************)
BlankRow == <<"">>

Blanks(n) == [i \in 1..n |-> BlankRow]

\* the rows above the data region of three kinds of file
HeaderRows(kind) ==
  CASE kind = "vodafone" ->
         <<<<"Vodafone Idea Call Data Records">>, <<"MSISDN : - 1">>>>
           \o Blanks(10)
    [] kind = "airtel" ->
         <<<<"BHARTI AIRTEL LIMITED">>, <<"Call Details of Mobile No '2'">>>>
           \o Blanks(5)
    [] kind = "plain" -> Blanks(12)

CdrFiles ==
  { [kind |-> "vodafone", name |-> "cdr.csv"],
    [kind |-> "airtel", name |-> "airtel.csv"],
    [kind |-> "plain", name |-> "export.csv"] }

\* a data row in the 20 column layout shared by AIRTEL and VODAFONE
DataRow(bParty, callType, time, duration, serviceType) ==
  <<"1", callType, "", bParty, "", "", "01/02", time, duration, "", "c1", "",
    "c2", "", serviceType, "", "", "", "", "">>

TwoDigits(n) == CharAt(DigitChars, (n \div 10) + 1) \o CharAt(DigitChars, (n % 10) + 1)

CdrTimes == {"17:59", "18:00", "05:59", "06:00", ""}

CdrDurations == {"45", "-5", "-", "", "abc"}

HeaderRepeatRow == <<"Target No", "Call Type", "PARTY">>

\* the rows a file body is drawn from: one field varies at a time
CdrRows ==
  {DataRow("2", "IN", t, "45", "Voice") : t \in CdrTimes}
    \cup {DataRow("2", "IN", "12:00", d, "Voice") : d \in CdrDurations}
    \cup {DataRow("3", "OUT", "20:00", "7", "SMS"), BlankRow, HeaderRepeatRow}

InitCDR ==
  /\ \E f \in CdrFiles, body \in SeqsUpTo(CdrRows, MaxRows) :
       /\ rawData = HeaderRows(f.kind) \o body
       /\ fileName = f.name
  /\ processedData = NoResult
  /\ cdrPc = "call"
  /\ NetIdle
  /\ FnIdle
  /\ UiIdle

ProcessCDRDataStep ==
  /\ cdrPc = "call"
  /\ processedData' = ProcessCDRData(rawData, fileName)
  /\ cdrPc' = "done"
  /\ UNCHANGED <<rawData, fileName>>
  /\ UNCHANGED <<netVars, fnVars, uiVars>>

NextCDR == ProcessCDRDataStep

SpecCDR == InitCDR /\ [][NextCDR]_vars

(***************************************************************************)
(* The pure helpers of cdrProcessor.ts applied to single arguments         *)
(***************************************************************************)
DurChars == {"0", "4", "5", "-", "+", "a", "x", " "}

\* all strings over the alphabet C of length at most n
RECURSIVE StringsUpTo(_, _)
StringsUpTo(C, n) ==
  IF n = 0 THEN {""}
  ELSE LET shorter == StringsUpTo(C, n - 1)
       IN  shorter \cup {str \o c : str \in shorter, c \in C}

DurStrings == StringsUpTo(DurChars, MaxDurLen) \cup {"abc", "45"}

Minutes == {"00", "30", "59"}

\* hh:mm and h:mm for every hour of the day, and times without an hour
FnTimes ==
  {TwoDigits(h) \o ":" \o m : h \in 0..23, m \in Minutes}
    \cup {CharAt(DigitChars, h + 1) \o ":" \o m : h \in 0..9, m \in Minutes}
    \cup {"", "ab:cd", ":30"}

InitFn ==
  /\ fnArg \in {[kind |-> "duration", s |-> d] : d \in DurStrings}
                 \cup {[kind |-> "time", s |-> t] : t \in FnTimes}
  /\ fnRes = 0
  /\ fnPc = "call"
  /\ NetIdle
  /\ CdrIdle
  /\ UiIdle

\* parseCallDuration(duration)
CallParseCallDuration ==
  /\ fnPc = "call"
  /\ fnArg.kind = "duration"
  /\ fnRes' = ParseCallDuration(fnArg.s)
  /\ fnPc' = "returned"
  /\ UNCHANGED fnArg
  /\ UNCHANGED <<netVars, cdrVars, uiVars>>

\* isNightTime(time), and the night and day sheets of one row with that time
CallIsNightTime ==
  /\ fnPc = "call"
  /\ fnArg.kind = "time"
  /\ LET data == <<DataRow("2", "IN", fnArg.s, "45", "Voice")>>
     IN  fnRes' = [night |-> IsNightTime(fnArg.s),
                   nightMapping |-> GenerateNightMapping(data, "VODAFONE", "1"),
                   dayMapping |-> GenerateDayMapping(data, "VODAFONE", "1")]
  /\ fnPc' = "returned"
  /\ UNCHANGED fnArg
  /\ UNCHANGED <<netVars, cdrVars, uiVars>>

NextFn == CallParseCallDuration \/ CallIsNightTime

SpecFn == InitFn /\ [][NextFn]_vars

(***************************************************************************)
(* Properties of the record normalizer                                     *)
(***************************************************************************)
AllDigits(str) == Len(str) > 0 /\ \A i \in 1..Len(str) : IsDigit(CharAt(str, i))

\* the number a string of decimal digits denotes
RECURSIVE Decimal(_)
Decimal(str) ==
  IF Len(str) = 0 THEN 0
  ELSE 10 * Decimal(SubSeq(str, 1, Len(str) - 1)) + DigitValue(CharAt(str, Len(str)))

\* the hour and the minutes of a time are numerals, the hour one of 0..23
WellFormedTime(time) ==
  /\ IndexOfChar(time, ":") > 0
  /\ AllDigits(SplitFirst(time, ":"))
  /\ Len(SplitFirst(time, ":")) <= 2
  /\ Decimal(SplitFirst(time, ":")) <= 23

HourOf(time) == Decimal(SplitFirst(time, ":"))

\* C4: a time with hour h in 0..23 is classified as night exactly when
\* h >= 18 or h < 6 (17:59 day, 18:00 night, 05:59 night, 06:00 day), and a
\* row with that time is put in the night sheet when night and in the day
\* sheet otherwise.
C4_NightBoundary ==
  (fnPc = "returned" /\ fnArg.kind = "time" /\ WellFormedTime(fnArg.s)) =>
    LET night == HourOf(fnArg.s) >= 18 \/ HourOf(fnArg.s) < 6
    IN  /\ fnRes.night = night
        /\ Len(fnRes.nightMapping) = (IF night THEN 1 ELSE 0)
        /\ Len(fnRes.dayMapping) = (IF night THEN 0 ELSE 1)

C4_Witness ==
  /\ fnPc = "returned"
  /\ fnArg = [kind |-> "time", s |-> "18:00"]
  /\ fnRes.night
  /\ Len(fnRes.nightMapping) = 1

\* the string starts with a number: optional white space, an optional sign,
\* then a decimal digit
StartsWithNumber(str) ==
  LET t == TrimStart(str)
      u == IF Len(t) > 0 /\ Head(t) \in {"-", "+"} THEN Tail(t) ELSE t
  IN  Len(u) > 0 /\ IsDigit(Head(u))

\* C6: parseCallDuration returns 0 for "", for "-" and for every string
\* that does not start with a number, and the integer itself for a string
\* of digits; it always returns a number.
C6_DurationCoercion ==
  (fnPc = "returned" /\ fnArg.kind = "duration") =>
    /\ fnRes \in Int
    /\ (fnArg.s \in {"", "-"} => fnRes = 0)
    /\ (~StartsWithNumber(fnArg.s) => fnRes = 0)
    /\ (AllDigits(fnArg.s) => fnRes = Decimal(fnArg.s))

C6_Witness ==
  /\ fnPc = "returned"
  /\ fnArg = [kind |-> "duration", s |-> "abc"]
  /\ fnRes = 0

\* C7: every row of the mapping table has a non-negative Duration, whatever
\* the raw duration string, a leading minus sign included.
C7_DurationNonNegative ==
  cdrPc = "done" =>
    \A i \in 1..Len(processedData.mapping) : processedData.mapping[i].Duration >= 0

ZeroSummaryRow(row) ==
  /\ row.TotalCalls = 0
  /\ row.OutCalls = 0
  /\ row.InCalls = 0
  /\ row.OutSms = 0
  /\ row.InSms = 0
  /\ row.OtherCalls = 0
  /\ row.TotalDuration = 0
  /\ row.TotalDays = 0

\* C8: when a file yields no valid data row, the summary table of the report
\* still has exactly one row, whose metrics are all zero.
C8_EmptySummaryRow ==
  (cdrPc = "done" /\ Len(processedData.mapping) = 0) =>
    /\ Len(processedData.summary) = 1
    /\ ZeroSummaryRow(processedData.summary[1])

(***************************************************************************)
(* The two-file example: file A, then file B                               *)
(***************************************************************************)
AccountA == "1000000001"
AccountB == "3000000003"
SharedContact == "2000000002"

RecordsTo(b) == {MappingRecord(b, s) : s \in RecordShapes}

CountTo(mapping, b) ==
  Cardinality({r \in 1..Len(mapping) : mapping[r].BParty = b})

\* file A: 3 records to the shared contact
ExampleMappingsA == [1..3 -> RecordsTo(SharedContact)]

\* file B: 2 records to the shared contact and 1 to account A, in any order
ExampleMappingsB ==
  {m \in [1..3 -> RecordsTo(SharedContact) \cup RecordsTo(AccountA)] :
     CountTo(m, SharedContact) = 2 /\ CountTo(m, AccountA) = 1}

InitExample ==
  /\ files = <<1, 2>>
  /\ parsed = [i \in 1..2 |-> NotParsed]
  /\ processedCDRs = <<>>
  /\ pc = "start"
  /\ fileIdx = 0
  /\ recIdx = 0
  /\ nodes = EmptyMap
  /\ nodeOrder = <<>>
  /\ edges = EmptyMap
  /\ edgeOrder = <<>>
  /\ contacts = EmptyMap
  /\ contactSet = <<>>
  /\ result = NoResult
  /\ error = ""
  /\ CdrIdle
  /\ FnIdle
  /\ UiIdle

\* the parse of file A or of file B completes
ParseExample(i) ==
  /\ pc = "parsing"
  /\ ~parsed[i].done
  /\ \E mapping \in IF i = 1 THEN ExampleMappingsA ELSE ExampleMappingsB :
       parsed' = [parsed EXCEPT ![i] =
                    [msisdn |-> IF i = 1 THEN AccountA ELSE AccountB,
                     mapping |-> mapping, done |-> TRUE]]
  /\ UNCHANGED <<files, processedCDRs, pc, fileIdx, recIdx, nodes, nodeOrder,
                 edges, edgeOrder, contacts, contactSet, result, error>>
  /\ UNCHANGED <<cdrVars, fnVars, uiVars>>

NextExample ==
  \/ Start
  \/ \E i \in 1..Len(files) : ParseExample(i)
  \/ ProcessFiles
  \/ StartFile
  \/ FoldRecord
  \/ FinishFile
  \/ BuildReturn
  \/ CalculateCentralitiesStep
  \/ ClassifyRolesStep
  \/ Assemble

SpecExample == InitExample /\ [][NextExample]_vars

\* the edges of a returned network whose endpoints are a and b
ResultEdges(network, a, b) ==
  {i \in 1..Len(network.edges) :
     {network.edges[i].source, network.edges[i].target} = {a, b}}

OneEdgeOfWeight(network, a, b, w) ==
  /\ Cardinality(ResultEdges(network, a, b)) = 1
  /\ \A i \in ResultEdges(network, a, b) : network.edges[i].weight = w

\* C11: for file A (account 1000000001, 3 records to 2000000002) then file B
\* (account 3000000003, 2 records to 2000000002 and 1 to 1000000001) the
\* result has the common contacts {2000000002} and a full network of exactly
\* 3 nodes and 3 edges: 1000000001-3000000003 of weight 1,
\* 1000000001-2000000002 of weight 3 and 3000000003-2000000002 of weight 2.
C11_TwoFileExample ==
  pc = "done" =>
    /\ result.commonContacts = <<SharedContact>>
    /\ Len(result.fullNetwork.nodes) = 3
    /\ {result.fullNetwork.nodes[i].id : i \in 1..3} =
         {AccountA, AccountB, SharedContact}
    /\ Len(result.fullNetwork.edges) = 3
    /\ OneEdgeOfWeight(result.fullNetwork, AccountA, AccountB, 1)
    /\ OneEdgeOfWeight(result.fullNetwork, AccountA, SharedContact, 3)
    /\ OneEdgeOfWeight(result.fullNetwork, AccountB, SharedContact, 2)

\* the example has run to its result, file B's record to account A last
C11_Witness ==
  /\ pc = "done"
  /\ result.returned
  /\ processedCDRs[1].msisdn = AccountA
  /\ CountTo(processedCDRs[1].mapping, SharedContact) = 3
  /\ processedCDRs[2].msisdn = AccountB
  /\ processedCDRs[2].mapping[3].BParty = AccountA

(***************************************************************************)
(* detectProvider applied to drawn head rows                               *)
(***************************************************************************)
MaxHeadRows == 2

\* rows with and without signatures, in several spellings and layouts
SignatureRows ==
  { <<"BHARTI AIRTEL LIMITED">>, <<"call details of mobile no '2'">>,
    <<"Search Criteria : MSISDN">>, <<"Search Criteria :", "MSISDN">>,
    <<"search value : 5">>, <<"Ticket Number : 7">>,
    <<"Input Value (MSISDN/B PARTY/IMEI/IMSI/CELL ID)">>,
    <<"Vodafone Idea Call Data Records">>, <<"Imei : - 3">>,
    <<"BHARTI AIRTEL">>, <<"LIMITED">>, <<"Target No", "IN">>,
    NullRow, <<>> }

\* the number of blank rows above the drawn rows: the last two values put
\* the drawn rows at the end of the head and just behind it
Paddings == {0, HeadRows - 2, HeadRows - 1, HeadRows}

DetectInputs ==
  {Blanks(k) \o rows : k \in Paddings, rows \in SeqsUpTo(SignatureRows, MaxHeadRows)}

InitDetect ==
  /\ rawData \in DetectInputs
  /\ fileName = ""
  /\ processedData = NoResult
  /\ cdrPc = "idle"
  /\ fnArg = [s |-> "", kind |-> "rows"]
  /\ fnRes = 0
  /\ fnPc = "call"
  /\ NetIdle
  /\ UiIdle

CallDetectProvider ==
  /\ fnPc = "call"
  /\ fnArg.kind = "rows"
  /\ fnRes' = DetectProvider(rawData)
  /\ fnPc' = "done"
  /\ UNCHANGED <<fnArg, rawData, fileName, processedData, cdrPc>>
  /\ UNCHANGED <<netVars, uiVars>>

NextDetect == CallDetectProvider

SpecDetect == InitDetect /\ [][NextDetect]_vars

\* the text of the first n rows, each row's values and the rows themselves
\* separated by one blank
RECURSIVE RowsText(_, _)
RowsText(data, n) ==
  IF n = 0 THEN ""
  ELSE IF n = 1 THEN HeadRowText(data[1])
  ELSE RowsText(data, n - 1) \o " " \o HeadRowText(data[n])

\* sig occurs in text, letters compared without regard to case
OccursIgnoringCase(text, sig) ==
  \E i \in 1..(Len(text) - Len(sig) + 1) :
    \A j \in 1..Len(sig) :
      LowerChar(CharAt(text, i + j - 1)) = LowerChar(CharAt(sig, j))

SignatureIn(text, provider) ==
  \E k \in 1..Len(Identifiers(provider)) :
    OccursIgnoringCase(text, Identifiers(provider)[k])

\* C12: detectProvider returns the first profile, in the order AIRTEL, BSNL,
\* JIO, VODAFONE, one of whose signatures occurs (case-insensitively) in the
\* text of the first 20 rows, and VODAFONE when none occurs, for every input,
\* null and empty rows included.
C12_DetectProvider ==
  (fnPc = "done" /\ fnArg.kind = "rows") =>
    LET n == IF Len(rawData) < 20 THEN Len(rawData) ELSE 20
        text == RowsText(rawData, n)
    IN  fnRes = IF SignatureIn(text, "AIRTEL") THEN "AIRTEL"
                ELSE IF SignatureIn(text, "BSNL") THEN "BSNL"
                ELSE IF SignatureIn(text, "JIO") THEN "JIO"
                ELSE "VODAFONE"

\* a null row followed by a lower-case AIRTEL signature: AIRTEL is detected
C12_Witness ==
  /\ fnPc = "done"
  /\ fnArg.kind = "rows"
  /\ Len(rawData) = 2
  /\ rawData[1] = NullRow
  /\ rawData[2] = <<"call details of mobile no '2'">>
  /\ fnRes = "AIRTEL"

(***************************************************************************)
(* extractMSISDN applied to drawn header rows                              *)
(***************************************************************************)
DeviceNumber == "123456789012345"
MobileNumber == "9876543210"

\* header rows of a provider: the device line, the mobile line, a line that
\* only the supplementary pattern matches
ProviderRows(provider) ==
  CASE provider = "AIRTEL" ->
         { <<"Call Details of IMEI No '" \o DeviceNumber \o "'">>,
           <<"Call Details of Mobile No '" \o MobileNumber \o "'">>,
           <<"Mobile No : '55'">> }
    [] provider = "BSNL" ->
         { <<"IMEI", DeviceNumber>>,
           <<"Search Value : " \o MobileNumber>>,
           <<"Search Value (MSISDN) : 55">> }
    [] provider = "JIO" ->
         { <<"Input Value (MSISDN/B PARTY/IMEI/IMSI/CELL ID) '" \o DeviceNumber \o "'">>,
           <<"Input Value", "'" \o MobileNumber \o "'">>,
           <<"input value '55'">> }
    [] provider = "VODAFONE" ->
         { <<"IMEI : - " \o DeviceNumber>>,
           <<"MSISDN : - " \o MobileNumber>>,
           <<"MSISDN (A Party) : - 55">> }

\* rows no provider pattern matches: a bare number, a title, nothing
PlainRows == { <<"Ref", MobileNumber>>, <<"Target No", "IN">>, NullRow, BlankRow }

ExtractInputs(provider) ==
  SeqsUpTo(ProviderRows(provider) \cup PlainRows, MaxHeadRows)

InitExtract ==
  /\ \E provider \in SeqToSet(ProviderOrder) :
       /\ fnArg = [s |-> provider, kind |-> "extract"]
       /\ rawData \in ExtractInputs(provider)
  /\ fileName = ""
  /\ processedData = NoResult
  /\ cdrPc = "idle"
  /\ fnRes = 0
  /\ fnPc = "call"
  /\ NetIdle
  /\ UiIdle

CallExtractMSISDN ==
  /\ fnPc = "call"
  /\ fnArg.kind = "extract"
  /\ fnRes' = ExtractMSISDN(rawData, fnArg.s)
  /\ fnPc' = "done"
  /\ UNCHANGED <<fnArg, rawData, fileName, processedData, cdrPc>>
  /\ UNCHANGED <<netVars, uiVars>>

NextExtract == CallExtractMSISDN

SpecExtract == InitExtract /\ [][NextExtract]_vars

\* the rows extractMSISDN looks at
Scanned == {i \in 1..Len(rawData) : i <= 25 /\ rawData[i] # NullRow}

ImeiCaptures ==
  {ImeiPattern(fnArg.s, RowText(rawData[i])) : i \in Scanned} \ {""}

MsisdnCaptures ==
  {MsisdnPattern(fnArg.s, RowText(rawData[i])) : i \in Scanned} \ {""}

\* C13: when the scanned rows hold a match of the profile's IMEI pattern and
\* a match of its MSISDN pattern, extractMSISDN returns the capture of the
\* IMEI pattern, wherever the two matches are, also when the MSISDN match is
\* in an earlier row.
C13_ImeiBeforeMsisdn ==
  (fnPc = "done" /\ fnArg.kind = "extract"
     /\ ImeiCaptures # {} /\ MsisdnCaptures # {})
  => fnRes \in ImeiCaptures

\* the runs of 10 or more digits in a text
DigitTokens(t) ==
  {SubSeq(t, i, DigitRunEnd(t, i) - 1) :
     i \in {j \in 1..Len(t) : /\ ~IsDigit(CharAtSafe(t, j - 1))
                              /\ DigitRunEnd(t, j) - j >= 10}}

ScannedTokens == UNION {DigitTokens(RowText(rawData[i])) : i \in Scanned}

\* some scanned row matches one of the provider's own patterns
ProfileMatch ==
  \E i \in Scanned : RowCdrNumber(fnArg.s, RowText(rawData[i])) # ""

\* C14: extractMSISDN returns 'Unknown' only when no scanned row matches a
\* profile pattern and no scanned row holds a token of 10 or more digits;
\* when no profile pattern matches and such a token is present, the token is
\* returned.
C14_DigitTokenFallback ==
  (fnPc = "done" /\ fnArg.kind = "extract") =>
    /\ fnRes = "Unknown" => (~ProfileMatch /\ ScannedTokens = {})
    /\ (~ProfileMatch /\ ScannedTokens # {}) => fnRes \in ScannedTokens

(***************************************************************************)
(* classifyRoles on networks built from files of a few kinds               *)
(***************************************************************************)
MaxRoleFiles == 3

\* the account of the i-th file and the k-th outside contact
HolderId(i) == "h" \o TwoDigits(i)
ContactId(k) == "c" \o CharAt(DigitChars, k + 1)

NightIn(b) == [BParty |-> b, CallType |-> "Incoming", Time |-> "20:15", Duration |-> 45]
DayOut(b) == [BParty |-> b, CallType |-> "OUT", Time |-> "12:00", Duration |-> 30]

\* six incoming night calls from six contacts
LeaderFile == [k \in 1..6 |-> NightIn(ContactId(k))]

\* the same and one more call of the first contact
HeavyLeaderFile == Append(LeaderFile, NightIn(ContactId(1)))

\* six contacts, four incoming night calls and two outgoing day calls
LeaderBrokerFile ==
  [k \in 1..6 |-> IF k <= 4 THEN NightIn(ContactId(k)) ELSE DayOut(ContactId(k))]

\* five contacts, three incoming and two outgoing calls
BrokerFile ==
  [k \in 1..5 |-> IF k <= 3 THEN NightIn(ContactId(k)) ELSE DayOut(ContactId(k))]

\* one call to the account of the third file
CallsThirdFile == <<DayOut(HolderId(3))>>

RoleFiles ==
  {LeaderFile, HeavyLeaderFile, LeaderBrokerFile, BrokerFile, CallsThirdFile, <<>>}

\* files without records that follow the drawn ones
RolePaddings == {0, 8, 9}

RoleInputs ==
  { [i \in 1..(Len(fs) + k) |->
       [msisdn |-> HolderId(i),
        mapping |-> IF i <= Len(fs) THEN fs[i] ELSE <<>>]] :
    fs \in SeqsUpTo(RoleFiles, MaxRoleFiles) \ {<<>>}, k \in RolePaddings }

\* the files have been parsed and normalized; the build is about to start
InitRoles ==
  /\ processedCDRs \in RoleInputs
  /\ files = [i \in 1..Len(processedCDRs) |-> i]
  /\ parsed = [i \in 1..Len(processedCDRs) |->
                 [msisdn |-> processedCDRs[i].msisdn,
                  mapping |-> processedCDRs[i].mapping, done |-> TRUE]]
  /\ pc = "build"
  /\ fileIdx = 1
  /\ recIdx = 0
  /\ nodes = EmptyMap
  /\ nodeOrder = <<>>
  /\ edges = EmptyMap
  /\ edgeOrder = <<>>
  /\ contacts = EmptyMap
  /\ contactSet = <<>>
  /\ result = NoResult
  /\ error = ""
  /\ CdrIdle
  /\ FnIdle
  /\ UiIdle

NextRoles ==
  \/ StartFile
  \/ FoldRecord
  \/ FinishFile
  \/ BuildReturn
  \/ CalculateCentralitiesStep
  \/ ClassifyRolesStep
  \/ Assemble

SpecRoles == InitRoles /\ [][NextRoles]_vars

\* classifyRoles has returned
Classified == pc \in {"assemble", "done"}

RankedIds == {id \in DOMAIN nodes : nodes[id].type # "external"}

ScoreOf(id) == nodes[id].metadata.influenceScore

\* the ranked nodes with a higher score than id, and those with the same
HigherScored(id) == {o \in RankedIds : FracLess(ScoreOf(id), ScoreOf(o))}
EquallyScored(id) == {o \in RankedIds \ {id} : FracEq(ScoreOf(id), ScoreOf(o))}

\* ceil(0.1 * n)
CeilTenth(n) == CHOOSE q \in 0..n : 10 * q >= n /\ 10 * (q - 1) < n

CallsOrOne(id) == IF nodes[id].callCount > 1 THEN nodes[id].callCount ELSE 1

\* incoming ratio > 0.6, night ratio > 0.4, uniqueContacts > 5
LeaderConditions(id) ==
  /\ 10 * nodes[id].metadata.incomingCalls > 6 * CallsOrOne(id)
  /\ 10 * nodes[id].metadata.nightCalls > 4 * CallsOrOne(id)
  /\ nodes[id].uniqueContacts > 5

\* betweenness > 2, 0.3 < incoming ratio < 0.7, uniqueContacts > 3
BrokerConditions(id) ==
  /\ nodes[id].centrality.betweenness.num > 2 * nodes[id].centrality.betweenness.den
  /\ 10 * nodes[id].metadata.incomingCalls > 3 * CallsOrOne(id)
  /\ 10 * nodes[id].metadata.incomingCalls < 7 * CallsOrOne(id)
  /\ nodes[id].uniqueContacts > 3

\* the rank index of id is below the quota in every / in some ranking by
\* descending score
SurelyInQuota(id) ==
  Cardinality(HigherScored(id)) + Cardinality(EquallyScored(id))
    < CeilTenth(Cardinality(RankedIds))
MaybeInQuota(id) ==
  Cardinality(HigherScored(id)) < CeilTenth(Cardinality(RankedIds))

\* C16: classifyRoles ranks the n non-external nodes by descending influence
\* score; a node is a kingpin if its rank index is below ceil(0.1*n) and it
\* meets the leader conditions, otherwise a middleman if it meets the broker
\* conditions, otherwise a peddler; a node meeting both sets of conditions is
\* a kingpin, and at most ceil(0.1*n) nodes are kingpins.
C16_RoleCascade ==
  Classified =>
    /\ \A id \in RankedIds :
         /\ nodes[id].type \in {"kingpin", "middleman", "peddler"}
         /\ (SurelyInQuota(id) /\ LeaderConditions(id)) => nodes[id].type = "kingpin"
         /\ nodes[id].type = "kingpin" => (MaybeInQuota(id) /\ LeaderConditions(id))
         /\ nodes[id].type = "middleman" => BrokerConditions(id)
         /\ nodes[id].type = "peddler" =>
              (~BrokerConditions(id)
                 /\ ~(SurelyInQuota(id) /\ LeaderConditions(id)))
    /\ Cardinality({id \in RankedIds : nodes[id].type = "kingpin"})
         <= CeilTenth(Cardinality(RankedIds))

\* more than ten ranked nodes: a kingpin that also meets the broker
\* conditions, a second kingpin, a node that meets the leader conditions
\* below the quota and a middleman
C16_Witness ==
  /\ Classified
  /\ Cardinality(RankedIds) > 10
  /\ \E a \in RankedIds, b \in RankedIds, c \in RankedIds :
       /\ a # b
       /\ nodes[a].type = "kingpin" /\ BrokerConditions(a)
       /\ nodes[b].type = "kingpin"
       /\ nodes[c].type # "kingpin" /\ LeaderConditions(c)

(***************************************************************************)
(* classifyRoles applied to drawn node maps                                *)
(***************************************************************************)
\* the centrality calculateCentralities gives a node with d edges of weight
\* 1 in a network of three nodes
DrawnCentrality(d) ==
  [degree |-> d, betweenness |-> Frac(d, 2), closeness |-> Frac(d, 2),
   eigenvector |-> d]

\* a node as the build and calculateCentralities leave it
DrawnNode(id, kind) ==
  CASE kind = "contact" ->
         [UpdateBPartyNode(NewBPartyNode(id), 45) EXCEPT
            !.centrality = DrawnCentrality(1)]
    [] kind = "busy contact" ->
         [UpdateBPartyNode(UpdateBPartyNode(NewBPartyNode(id), 45), 30) EXCEPT
            !.centrality = DrawnCentrality(2)]
    [] kind = "silent holder" -> FinishCdrNode(NewCdrNode(id), 0)
    [] kind = "holder" ->
         [FinishCdrNode(UpdateCdrNode(NewCdrNode(id), 45, "Incoming", 20), 1)
            EXCEPT !.centrality = DrawnCentrality(1)]

NodeKinds == {"contact", "busy contact", "silent holder", "holder"}

\* node maps over at most three numbers, in the order of the numbers; the
\* maps without any holder and the empty map are among them
DrawnNodeMaps ==
  UNION { [ids -> NodeKinds] : ids \in SUBSET Numbers }

OrderOf(ids) == SelectSeq(<<"1", "2", "3">>, LAMBDA id : id \in ids)

InitClassify ==
  /\ \E kinds \in DrawnNodeMaps :
       /\ nodes = [id \in DOMAIN kinds |-> DrawnNode(id, kinds[id])]
       /\ nodeOrder = OrderOf(DOMAIN kinds)
  /\ files = <<>>
  /\ parsed = <<>>
  /\ processedCDRs = <<>>
  /\ pc = "classify"
  /\ fileIdx = 0
  /\ recIdx = 0
  /\ edges = EmptyMap
  /\ edgeOrder = <<>>
  /\ contacts = EmptyMap
  /\ contactSet = <<>>
  /\ result = NoResult
  /\ error = ""
  /\ CdrIdle
  /\ FnIdle
  /\ UiIdle

NextClassify == ClassifyRolesStep

SpecClassify == InitClassify /\ [][NextClassify]_vars

ExternalIds == {id \in DOMAIN nodes : nodes[id].type = "external"}

\* C17: classifyRoles leaves every node whose type is 'external' as it is
\* ('external' / 'External Contact', no influence score set); when there is
\* no non-external node it changes no node at all and raises no error.
C17_ExternalsUntouched ==
  [][ ClassifyRolesStep =>
        /\ \A id \in ExternalIds :
             /\ nodes'[id] = nodes[id]
             /\ nodes'[id].type = "external"
             /\ nodes'[id].role = "External Contact"
             /\ ~nodes'[id].metadata.hasInfluenceScore
        /\ DOMAIN nodes' = DOMAIN nodes
        /\ ExternalIds = DOMAIN nodes => (nodes' = nodes /\ error' = "")
        /\ pc' = "assemble" ]_vars

\* classifyRoles has run on a map that holds external nodes only
C17_Witness ==
  /\ pc = "assemble"
  /\ Cardinality(DOMAIN nodes) >= 2
  /\ ExternalIds = DOMAIN nodes

(***************************************************************************)
(* Properties of the centralities and of the returned networks             *)
(***************************************************************************)
\* calculateCentralities has returned
Measured == pc \in {"classify", "assemble", "done"}

OtherEnd(edge, id) == IF edge.source = id THEN edge.target ELSE edge.source

\* the sum, over the edges touching id, of weight times the neighbour's degree
NeighbourDegreeSum(id) ==
  LET conns == Connections(edges, edgeOrder, id)
  IN  SeqSum([i \in 1..Len(conns) |->
                conns[i].weight * nodes[OtherEnd(conns[i], id)].centrality.degree])

\* C18: after calculateCentralities every node's eigenvector score is the
\* sum, over the edges touching the node, of the edge's weight multiplied by
\* the degree of the neighbour at the other end.
C18_EigenvectorNeighbourDegree ==
  Measured =>
    \A id \in DOMAIN nodes :
      nodes[id].centrality.eigenvector = NeighbourDegreeSum(id)

\* the account numbers of the uploaded files
UploadedAccounts == {parsed[i].msisdn : i \in 1..Len(parsed)}

\* C19: in every result the internal network's nodes are exactly the full
\* network's nodes whose id is the account number of an uploaded file, its
\* edges are exactly the full network's edges whose source and target are
\* both account numbers, and every internal edge has both endpoints among
\* the internal nodes.
C19_InternalNetwork ==
  pc = "done" =>
    LET full == result.fullNetwork
        internal == result.internalNetwork
        internalIds == {internal.nodes[i].id : i \in 1..Len(internal.nodes)}
    IN  /\ SeqToSet(internal.nodes) =
             {n \in SeqToSet(full.nodes) : n.id \in UploadedAccounts}
        /\ Len(internal.nodes) = Cardinality(SeqToSet(internal.nodes))
        /\ SeqToSet(internal.edges) =
             {e \in SeqToSet(full.edges) :
                e.source \in UploadedAccounts /\ e.target \in UploadedAccounts}
        /\ Len(internal.edges) = Cardinality(SeqToSet(internal.edges))
        /\ \A e \in SeqToSet(internal.edges) :
             e.source \in internalIds /\ e.target \in internalIds

\* a result with an edge between two accounts and an edge to an outside
\* contact
C19_Witness ==
  /\ pc = "done"
  /\ Len(result.internalNetwork.edges) = 1
  /\ Len(result.fullNetwork.edges) = 2
  /\ Len(result.internalNetwork.nodes) = 2
  /\ Len(result.fullNetwork.nodes) = 3

\* C20: once a node has been created with type 'external', no later file in
\* which that number is the account number changes its type: the node stays
\* 'external' through the rest of the build and through classifyRoles.
C20_ExternalNotPromoted ==
  [][ \A id \in DOMAIN nodes :
        nodes[id].type = "external" =>
          (id \in DOMAIN nodes' /\ nodes'[id].type = "external") ]_vars

\* the analysis is over and the node of an uploaded account is external
C20_Witness ==
  /\ pc = "done"
  /\ \E f \in 1..Len(processedCDRs) :
       /\ HasKey(nodes, processedCDRs[f].msisdn)
       /\ nodes[processedCDRs[f].msisdn].type = "external"
       /\ \E g \in 1..(f - 1) :
            \E r \in 1..Len(processedCDRs[g].mapping) :
              processedCDRs[g].mapping[r].BParty = processedCDRs[f].msisdn

(***************************************************************************)
(* Concurrent parses: Promise.all over files.map(parseCSVFile), with the   *)
(* rank at which each parse completed kept beside its result               *)
(***************************************************************************)
\* the records of the files whose parse order is followed
OrderRecords ==
  {MappingRecord(b, [CallType |-> "Incoming", Time |-> "20:15",
                     Duration |-> 45]) : b \in Numbers}

InitOrder ==
  /\ files \in {[i \in 1..n |-> i] : n \in 1..MaxFiles}
  /\ parsed = [i \in 1..Len(files) |-> NotParsed]
  /\ processedCDRs = <<>>
  /\ pc = "start"
  /\ fileIdx = 0
  /\ recIdx = 0
  /\ nodes = EmptyMap
  /\ nodeOrder = <<>>
  /\ edges = EmptyMap
  /\ edgeOrder = <<>>
  /\ contacts = EmptyMap
  /\ contactSet = <<>>
  /\ result = NoResult
  /\ error = ""
  /\ CdrIdle
  /\ FnIdle
  /\ UiIdle

\* the complete callback of the parse of file i resolves its promise, as the
\* at-th of the parses to do so
ParseCompleteAt(i) ==
  /\ pc = "parsing"
  /\ ~parsed[i].done
  /\ \E msisdn \in Accounts, mapping \in SeqsUpTo(OrderRecords, 1) :
       parsed' = [parsed EXCEPT ![i] =
                    [msisdn |-> msisdn, mapping |-> mapping, done |-> TRUE,
                     at |-> 1 + Cardinality({j \in 1..Len(parsed) :
                                               parsed[j].done})]]
  /\ UNCHANGED <<files, processedCDRs, pc, fileIdx, recIdx, nodes, nodeOrder,
                 edges, edgeOrder, contacts, contactSet, result, error>>
  /\ UNCHANGED <<cdrVars, fnVars, uiVars>>

NextOrder ==
  \/ Start
  \/ \E i \in 1..Len(files) : ParseCompleteAt(i)
  \/ ProcessFiles
  \/ StartFile
  \/ FoldRecord
  \/ FinishFile
  \/ BuildReturn
  \/ CalculateCentralitiesStep
  \/ ClassifyRolesStep
  \/ Assemble

SpecOrder == InitOrder /\ [][NextOrder]_vars

\* the numbers of the input, file by file in the order of the file list:
\* the account of a file, then its counterparties
NumbersInListOrder ==
  Dedupe(Flatten([i \in 1..Len(parsed) |->
                    <<parsed[i].msisdn>> \o
                      FileContacts(parsed[i].msisdn, parsed[i].mapping)]))

\* <<file, record>> positions of the input records between a and b
PairPositions(a, b) ==
  UNION { { <<f, r>> : r \in { q \in 1..Len(parsed[f].mapping) :
               {parsed[f].msisdn, parsed[f].mapping[q].BParty} = {a, b} } }
          : f \in 1..Len(parsed) }

\* the first of them in the order of the file list
FirstPosition(a, b) ==
  CHOOSE p \in PairPositions(a, b) :
    \A q \in PairPositions(a, b) :
      p[1] < q[1] \/ (p[1] = q[1] /\ p[2] <= q[2])

Folding == pc \in {"build", "fold"}
Built == pc \in {"centralities", "classify", "assemble", "done"}

\* C21: whatever the order in which the parses complete, the fold starts
\* only when every parse has completed, the files are processed and folded
\* in the order of the input file list, and so the nodes are created in the
\* order in which the list presents their numbers and every edge has the
\* account of the first record of its pair in list order as its source and
\* that record's B Party as its target.
C21_FoldInListOrder ==
  /\ (Folding \/ Built) =>
       /\ \A i \in 1..Len(parsed) : parsed[i].done
       /\ Len(processedCDRs) = Len(files)
       /\ \A i \in 1..Len(files) :
            /\ processedCDRs[i].msisdn = parsed[i].msisdn
            /\ processedCDRs[i].mapping = parsed[i].mapping
  /\ Built =>
       /\ nodeOrder = NumbersInListOrder
       /\ \A k \in DOMAIN edges :
            LET p == FirstPosition(edges[k].source, edges[k].target)
            IN  /\ edges[k].source = parsed[p[1]].msisdn
                /\ edges[k].target = parsed[p[1]].mapping[p[2]].BParty

\* the analysis is over for two files of different accounts that call each
\* other, and the parse of the second file completed before that of the first
C21_Witness ==
  /\ pc = "done"
  /\ Len(parsed) >= 2
  /\ parsed[2].at < parsed[1].at
  /\ parsed[1].msisdn # parsed[2].msisdn
  /\ Len(parsed[1].mapping) = 1 /\ Len(parsed[2].mapping) = 1
  /\ parsed[1].mapping[1].BParty = parsed[2].msisdn
  /\ parsed[2].mapping[1].BParty = parsed[1].msisdn

(***************************************************************************)
(* mapProviderFields applied to one row of a provider's file               *)
(***************************************************************************)
\* a row with a value of its own in each of its columns
ColumnValues ==
  <<"v0", "v1", "v2", "v3", "v4", "v5", "v6", "v7", "v8", "v9", "v10",
    "v11", "v12", "v13", "v14", "v15", "v16", "v17", "v18", "v19", "v20">>

\* the rows drawn: the leading columns of it, none to all
FieldRows == {SubSeq(ColumnValues, 1, n) : n \in 0..Len(ColumnValues)}

InitFields ==
  /\ \E provider \in SeqToSet(ProviderOrder) \cup {"Unknown"} :
       fnArg = [s |-> provider, kind |-> "fields"]
  /\ \E row \in FieldRows : rawData = <<row>>
  /\ fileName = ""
  /\ processedData = NoResult
  /\ cdrPc = "idle"
  /\ fnRes = 0
  /\ fnPc = "call"
  /\ NetIdle
  /\ UiIdle

CallMapProviderFields ==
  /\ fnPc = "call"
  /\ fnArg.kind = "fields"
  /\ fnRes' = MapProviderFields(rawData[1], fnArg.s)
  /\ fnPc' = "done"
  /\ UNCHANGED <<fnArg, rawData, fileName, processedData, cdrPc>>
  /\ UNCHANGED <<netVars, uiVars>>

NextFields == CallMapProviderFields

SpecFields == InitFields /\ [][NextFields]_vars

\* the column a provider's field map gives to the other party of the call
OtherPartyIndex(provider) ==
  LET mapping == FieldMappings(provider)
  IN  IF "bParty" \in DOMAIN mapping THEN mapping.bParty
      ELSE IF "otherParty" \in DOMAIN mapping THEN mapping.otherParty
      ELSE mapping.calledParty

\* C22: for each of the four providers, the bParty that mapProviderFields
\* returns is the value of the row at the column the provider's field map
\* gives to the other party: 3 for AIRTEL and VODAFONE (bParty), 4 for BSNL
\* (otherParty), 1 for JIO (calledParty); '' when the row has no such column.
C22_CounterpartyColumn ==
  (fnPc = "done" /\ fnArg.kind = "fields" /\ fnArg.s \in SeqToSet(ProviderOrder))
    => /\ OtherPartyIndex(fnArg.s) =
            (CASE fnArg.s = "BSNL" -> 4 [] fnArg.s = "JIO" -> 1 [] OTHER -> 3)
       /\ fnRes.bParty = GetFieldValue(rawData[1], OtherPartyIndex(fnArg.s))

(***************************************************************************)
(* The data region: processCDRData on files whose rows carry their index   *)
(***************************************************************************)
\* the B Party column of the row at index i (from 0) holds RowNames[i + 1]
RowNames ==
  <<"r0", "r1", "r2", "r3", "r4", "r5", "r6", "r7", "r8", "r9", "r10", "r11",
    "r12", "r13", "r14", "r15", "r16", "r17", "r18", "r19", "r20", "r21",
    "r22", "r23", "r24", "r25", "r26", "r27", "r28", "r29">>

SignatureRow(provider) ==
  CASE provider = "AIRTEL" -> <<"BHARTI AIRTEL LIMITED">>
    [] provider = "BSNL" -> <<"Search Criteria : MSISDN">>
    [] provider = "JIO" -> <<"Ticket Number : 7">>
    [] provider = "VODAFONE" -> <<"Vodafone Idea Call Data Records">>

\* a file of len rows: the signature, then rows that all hold data; the row
\* at index imeiAt names a device identifier in its last column (imeiAt = 0,
\* the index of the signature: no row does)
IndexedFile(provider, len, imeiAt) ==
  [k \in 1..len |->
     IF k = 1 THEN SignatureRow(provider)
     ELSE IF k = imeiAt + 1 THEN <<"1", "IN", "", RowNames[k], "IMEI 35">>
     ELSE <<"1", "IN", "", RowNames[k]>>]

FileLengths == {22, 28}
ImeiRows == {0, 2, 10, 19, 20, 21, 25, 27}
StartNames == {"cdr.csv", "cdr_IMEI.csv"}

InitStart ==
  /\ \E provider \in SeqToSet(ProviderOrder), len \in FileLengths,
        imeiAt \in ImeiRows :
       /\ imeiAt < len
       /\ rawData = IndexedFile(provider, len, imeiAt)
  /\ fileName \in StartNames
  /\ processedData = NoResult
  /\ cdrPc = "call"
  /\ NetIdle
  /\ FnIdle
  /\ UiIdle

SpecStart == InitStart /\ [][NextCDR]_vars

ImeiText(row) == Includes(ToLowerCase(RowText(row)), "imei")

\* the file is a by-device-identifier export by its name or by its sampled
\* rows, the first 20
ByDeviceIdentifier ==
  \/ Includes(ToLowerCase(fileName), "imei")
  \/ \E k \in 1..Len(rawData) : k <= HeadRows /\ ImeiText(rawData[k])

ClaimedStart(provider) ==
  CASE provider = "JIO" -> IF ByDeviceIdentifier THEN 11 ELSE 19
    [] provider = "AIRTEL" -> 7
    [] provider = "BSNL" -> 7
    [] provider = "VODAFONE" -> 12

\* C23: the data region of a JIO file starts at row 11 when the file name
\* contains 'imei' or the sampled header rows hold IMEI text, and at row 19
\* otherwise (IMEI text in later rows only does not select 11); AIRTEL, BSNL
\* and VODAFONE files start at 7, 7 and 12. In a file whose rows all hold
\* data the mapping table is the rows from the start index on.
C23_DataStartIndex ==
  cdrPc = "done" =>
    LET start == ClaimedStart(processedData.provider)
    IN  /\ Len(processedData.mapping) = Len(rawData) - start
        /\ processedData.mapping[1].BParty = RowNames[start + 1]

(***************************************************************************)
(* The row filter: processCDRData on bodies of data, padding and headers   *)
(***************************************************************************)
SpaceRow == <<" ", "">>
TokenAndDataRow == <<"B PARTY", "OUT", "", "4">>

\* the rows a filtered body is drawn from
FilterRows ==
  { DataRow("2", "IN", "20:00", "45", "Voice"),
    DataRow("3", "OUT", "12:00", "7", "SMS"),
    BlankRow, SpaceRow, HeaderRepeatRow, TokenAndDataRow, NullRow }

FilterFiles ==
  { [kind |-> "vodafone", name |-> "cdr.csv"],
    [kind |-> "airtel", name |-> "airtel.csv"] }

InitFilter ==
  /\ \E f \in FilterFiles, body \in SeqsUpTo(FilterRows, MaxRows) :
       /\ rawData = HeaderRows(f.kind) \o body
       /\ fileName = f.name
  /\ processedData = NoResult
  /\ cdrPc = "call"
  /\ NetIdle
  /\ FnIdle
  /\ UiIdle

SpecFilter == InitFilter /\ [][NextCDR]_vars

HeaderRepeatTokens == {"Target", "PARTY", "Call Type"}

\* the rows of the file from the data start index on
DataRegion ==
  SubSeq(rawData,
         GetDataStartIndex(processedData.provider,
                           IsImeiData(rawData, fileName)) + 1,
         Len(rawData))

\* the mapping table of the rows of the data region that pass the test
MappingOf(Accepted(_)) ==
  LET kept == SelectSeq(DataRegion, Accepted)
  IN  [k \in 1..Len(kept) |->
         MappingRow(kept[k], processedData.provider, processedData.msisdn)]

\* some field is a non-empty string that is no header-repeat token
FieldNotEqualToken(row) ==
  /\ row # NullRow
  /\ \E k \in 1..Len(row) : row[k] # "" /\ row[k] \notin HeaderRepeatTokens

\* some field has text other than white space and holds no header-repeat
\* token
FieldWithoutToken(row) ==
  /\ row # NullRow
  /\ \E k \in 1..Len(row) :
       /\ Trim(row[k]) # ""
       /\ \A t \in HeaderRepeatTokens : ~Includes(row[k], t)

MaxRankRows == 3

\* counterparties: two short codes and two subscriber numbers
ShortCodes == {"198", "121"}
RankedParties == ShortCodes \cup {"9876543210", "9123456780"}

RankRows ==
  {DataRow(b, "IN", "12:00", d, "Voice") :
     b \in RankedParties, d \in {"10", "20"}}

InitRank ==
  /\ fnArg \in [s : {"AIRTEL", "VODAFONE"}, kind : {"maxCalls", "maxDuration"}]
  /\ rawData \in SeqsUpTo(RankRows, MaxRankRows)
  /\ fileName = ""
  /\ processedData = NoResult
  /\ cdrPc = "idle"
  /\ fnRes = 0
  /\ fnPc = "call"
  /\ NetIdle
  /\ UiIdle

CallGenerateMaxCalls ==
  /\ fnPc = "call"
  /\ fnArg.kind = "maxCalls"
  /\ fnRes' = GenerateMaxCalls(rawData, fnArg.s, "1")
  /\ fnPc' = "done"
  /\ UNCHANGED <<fnArg, rawData, fileName, processedData, cdrPc>>
  /\ UNCHANGED <<netVars, uiVars>>

CallGenerateMaxDuration ==
  /\ fnPc = "call"
  /\ fnArg.kind = "maxDuration"
  /\ fnRes' = GenerateMaxDuration(rawData, fnArg.s, "1")
  /\ fnPc' = "done"
  /\ UNCHANGED <<fnArg, rawData, fileName, processedData, cdrPc>>
  /\ UNCHANGED <<netVars, uiVars>>

NextRank == CallGenerateMaxCalls \/ CallGenerateMaxDuration

SpecRank == InitRank /\ [][NextRank]_vars

\* the B Party of an input row (column 3 of the shared layout)
RowParty(i) == rawData[i][4]

\* the index of the first input row of a counterparty
FirstRowOf(b) ==
  CHOOSE i \in 1..Len(rawData) :
    RowParty(i) = b /\ \A j \in 1..(i - 1) : RowParty(j) # b

\* the metric of a row of the table
Metric(row) ==
  IF fnArg.kind = "maxCalls" THEN row.TotalCalls ELSE row.TotalDuration

\* C25: maxCalls (maxDuration) lists one row per counterparty in
\* non-increasing order of Total Calls (Total Duration), and counterparties
\* with an equal metric appear in the order in which the input rows first
\* present them, short numbers that are integer-like keys included.
C25_RankingOrder ==
  fnPc = "done" =>
    /\ {fnRes[k].BParty : k \in 1..Len(fnRes)} =
         {RowParty(i) : i \in 1..Len(rawData)}
    /\ \A j \in 1..Len(fnRes), k \in 1..Len(fnRes) :
         j < k =>
           /\ fnRes[j].BParty # fnRes[k].BParty
           /\ Metric(fnRes[j]) >= Metric(fnRes[k])
           /\ Metric(fnRes[j]) = Metric(fnRes[k]) =>
                FirstRowOf(fnRes[j].BParty) < FirstRowOf(fnRes[k].BParty)

(***************************************************************************)
(* One edge folded many times: buildNetworkFromCDRs on a file of account   *)
(* "1" calling "2" and a file of account "2" calling back                  *)
(***************************************************************************)
MaxEdgeRecs == 5

\* calls in the evening, at noon and just after midnight
EdgeShapes ==
  { [CallType |-> "Incoming", Time |-> "20:15", Duration |-> 45],
    [CallType |-> "OUT", Time |-> "12:00", Duration |-> 30],
    [CallType |-> "IN", Time |-> "00:30", Duration |-> 0] }

EdgeInputs ==
  { <<[msisdn |-> "1", mapping |-> m]>> \o back :
      m \in SeqsUpTo({MappingRecord("2", s) : s \in EdgeShapes}, MaxEdgeRecs),
      back \in {<<>>} \cup
               { <<[msisdn |-> "2",
                    mapping |-> <<MappingRecord("1", s)>>]>> : s \in EdgeShapes } }

InitEdge ==
  /\ processedCDRs \in EdgeInputs
  /\ files = [i \in 1..Len(processedCDRs) |-> i]
  /\ parsed = [i \in 1..Len(processedCDRs) |->
                 [msisdn |-> processedCDRs[i].msisdn,
                  mapping |-> processedCDRs[i].mapping, done |-> TRUE]]
  /\ pc = "build"
  /\ fileIdx = 1
  /\ recIdx = 0
  /\ nodes = EmptyMap
  /\ nodeOrder = <<>>
  /\ edges = EmptyMap
  /\ edgeOrder = <<>>
  /\ contacts = EmptyMap
  /\ contactSet = <<>>
  /\ result = NoResult
  /\ error = ""
  /\ CdrIdle
  /\ FnIdle
  /\ UiIdle

SpecEdge == InitEdge /\ [][NextRoles]_vars

\* C26: after every fold step, the one that creates the edge included, the
\* dayTime of each edge agrees with its counters: 'night' if
\* nightCalls/callCount > 0.7, 'day' if nightCalls/callCount < 0.3, 'mixed'
\* otherwise; and 0 <= nightCalls <= callCount = weight.
C26_EdgeDayTime ==
  \A k \in DOMAIN edges :
    LET night == edges[k].metadata.nightCalls
        calls == edges[k].callCount
    IN  /\ 0 <= night /\ night <= calls /\ calls = edges[k].weight
        /\ calls >= 1
        /\ (10 * night > 7 * calls) => edges[k].metadata.dayTime = "night"
        /\ (10 * night < 3 * calls) => edges[k].metadata.dayTime = "day"
        /\ (10 * night <= 7 * calls /\ 10 * night >= 3 * calls)
             => edges[k].metadata.dayTime = "mixed"

\* the analysis is over: the first file held four records, the first three
\* of them in the evening, the call back of the second file was folded into
\* the same edge, and the edge of five calls, three at night, is mixed
C26_Witness ==
  /\ pc = "done"
  /\ \E k \in DOMAIN edges :
       /\ edges[k].callCount = 5
       /\ edges[k].metadata.nightCalls = 3
       /\ edges[k].metadata.dayTime = "mixed"
  /\ Len(processedCDRs) = 2
  /\ Len(processedCDRs[1].mapping) = 4
  /\ \A r \in 1..3 : processedCDRs[1].mapping[r].Time = "20:15"

\* the distinct counterparties of account a over all the files that carry a
ContactsOf(a) ==
  UNION { { processedCDRs[f].mapping[r].BParty :
              r \in 1..Len(processedCDRs[f].mapping) }
          : f \in {g \in 1..Len(processedCDRs) : processedCDRs[g].msisdn = a} }
    \ {"", a}

\* C27: when buildNetworkFromCDRs has returned, the uniqueContacts of the
\* node of every account is the number of distinct non-empty counterparty
\* numbers other than the account over all records of all the files of that
\* account (a contact found in several files of the account counts once),
\* and the uniqueContacts of every node that was never an account is 0.
C27_UniqueContacts ==
  Built =>
    \A id \in DOMAIN nodes :
      nodes[id].uniqueContacts =
        IF id \in UploadedAccounts THEN Cardinality(ContactsOf(id)) ELSE 0

\* the analysis is over for two files of one account that both hold a record
\* towards the same number: the account has one unique contact
C27_Witness ==
  /\ pc = "done"
  /\ Len(processedCDRs) = 2
  /\ processedCDRs[1].msisdn = processedCDRs[2].msisdn
  /\ Len(processedCDRs[1].mapping) = 1 /\ Len(processedCDRs[2].mapping) = 1
  /\ processedCDRs[1].mapping[1].BParty = processedCDRs[2].mapping[1].BParty
  /\ nodes[processedCDRs[1].msisdn].uniqueContacts = 1

\* the folded records, not skipped, in which number b is the counterparty
CounterpartyPositions(b) ==
  {p \in FoldedPositions :
     RecordAt(p).BParty = b /\ b # "" /\ AccountAt(p) # b}

OutgoingPositions(a) ==
  {p \in CountedPositions(a) :
     Includes(ToLowerCase(RecordAt(p).CallType), "out")}

\* C29: at every point of the fold, every record folded so far (a record
\* with a B Party, other than its account) has incremented exactly one of
\* its account node's incomingCalls and outgoingCalls, outgoing iff the call
\* type contains 'out': for every node, outgoingCalls is the number of
\* folded outgoing records of the node as account, incomingCalls +
\* outgoingCalls the number of folded records of the node as account,
\* callCount that number plus the number of folded records in which the node
\* is the counterparty, and incomingCalls + outgoingCalls <= callCount.
C29_CallCounters ==
  \A id \in DOMAIN nodes :
    LET asAccount == Cardinality(CountedPositions(id))
        asCounterparty == Cardinality(CounterpartyPositions(id))
        incoming == nodes[id].metadata.incomingCalls
        outgoing == nodes[id].metadata.outgoingCalls
    IN  /\ outgoing = Cardinality(OutgoingPositions(id))
        /\ incoming + outgoing = asAccount
        /\ nodes[id].callCount = asAccount + asCounterparty
        /\ incoming + outgoing <= nodes[id].callCount

\* in the middle of a fold a node has been the account of an outgoing call
\* and the counterparty of another account's call
C29_Witness ==
  /\ pc = "fold"
  /\ \E id \in DOMAIN nodes :
       /\ nodes[id].metadata.outgoingCalls = 1
       /\ nodes[id].metadata.incomingCalls = 0
       /\ nodes[id].callCount = 2
       /\ Cardinality(CounterpartyPositions(id)) = 1

(***************************************************************************)
(* CDRUploader.tsx: processFiles, run from the Process button of the       *)
(* uploader that Index.tsx renders.  A step is the code between two awaits *)
(***************************************************************************)
MaxUploads == 2

UploadNames == <<"a.csv", "b.csv", "c.csv", "d.csv">>

\* what a parse can hand to processCDRData: no row, a header block alone, or
\* an AIRTEL file of one data row
UploadCsvs ==
  { <<>>,
    HeaderRows("vodafone"),
    HeaderRows("airtel") \o <<DataRow("2", "IN", "20:00", "45", "Voice")>>,
    HeaderRows("airtel") \o <<DataRow("3", "OUT", "12:00", "7", "SMS")>> }

\* the files state holds the CSV files the user has selected
InitUpload ==
  /\ uploadFiles \in {SubSeq(UploadNames, 1, n) : n \in 0..MaxUploads}
  /\ isProcessing = FALSE
  /\ uploadProgress = Frac(0, 1)
  /\ uploadIdx = 0
  /\ uploadData = <<>>
  /\ uploadPc = "idle"
  /\ pageIsProcessing = FALSE
  /\ pageProcessedData = <<>>
  /\ NetIdle
  /\ CdrIdle
  /\ FnIdle

\* setUploadProgress(((i + 1) / files.length) * 100)
ProgressAt(i) == Frac((i + 1) * 100, Len(uploadFiles))

\* a click on the button (enabled when files.length # 0 and not
\* isProcessing): setIsProcessing(true), onProcessingStart(), and the first
\* turn of the loop up to its await
UploaderProcessFiles ==
  /\ uploadPc \in {"idle", "ended"}
  /\ Len(uploadFiles) # 0
  /\ ~isProcessing
  /\ isProcessing' = TRUE
  /\ pageIsProcessing' = TRUE
  /\ uploadData' = <<>>
  /\ uploadIdx' = 0
  /\ uploadProgress' = ProgressAt(0)
  /\ uploadPc' = "parsing"
  /\ UNCHANGED <<uploadFiles, pageProcessedData>>
  /\ UNCHANGED <<netVars, cdrVars, fnVars>>

\* Papa's complete callback resolves the awaited promise: the file is
\* processed and pushed; then the next turn of the loop up to its await or,
\* after the last file, onFilesUploaded, onProcessingComplete, the toast and
\* the finally block
UploaderParseComplete ==
  /\ uploadPc = "parsing"
  /\ \E csvData \in UploadCsvs :
       LET processed == ProcessCDRData(csvData, uploadFiles[uploadIdx + 1])
           data == Append(uploadData, processed)
       IN  /\ uploadData' = data
           /\ uploadIdx' = uploadIdx + 1
           /\ IF uploadIdx + 1 < Len(uploadFiles)
              THEN /\ uploadProgress' = ProgressAt(uploadIdx + 1)
                   /\ uploadPc' = "parsing"
                   /\ UNCHANGED <<isProcessing, pageIsProcessing,
                                  pageProcessedData>>
              ELSE /\ pageProcessedData' = data
                   /\ pageIsProcessing' = FALSE
                   /\ isProcessing' = FALSE
                   /\ uploadProgress' = Frac(0, 1)
                   /\ uploadPc' = "ended"
  /\ UNCHANGED uploadFiles
  /\ UNCHANGED <<netVars, cdrVars, fnVars>>

\* Papa's error callback rejects the awaited promise: the catch block (log
\* and toast) and the finally block
UploaderParseError ==
  /\ uploadPc = "parsing"
  /\ isProcessing' = FALSE
  /\ uploadProgress' = Frac(0, 1)
  /\ uploadPc' = "ended"
  /\ UNCHANGED <<uploadFiles, uploadIdx, uploadData, pageIsProcessing,
                 pageProcessedData>>
  /\ UNCHANGED <<netVars, cdrVars, fnVars>>

NextUpload ==
  \/ UploaderProcessFiles
  \/ UploaderParseComplete
  \/ UploaderParseError

SpecUpload == InitUpload /\ [][NextUpload]_vars

\* C28: every run of processFiles that has called onProcessingStart lets the
\* page leave its processing state: when the run has ended, on the path
\* where a parse fails as on the others, the page's isProcessing is false
\* again, and the uploader's isProcessing is false and its uploadProgress 0.
C28_ProcessingEnds ==
  uploadPc = "ended" =>
    /\ ~pageIsProcessing
    /\ ~isProcessing
    /\ uploadProgress = Frac(0, 1)

(***************************************************************************)
(* The night and day sheets: processCDRData on rows of every kind of time  *)
(***************************************************************************)
\* evening, noon, just after midnight, no time, and an hour that is no number
SheetTimes == {"20:00", "12:00", "00:30", "", "ab:10"}

SheetRows ==
  {DataRow("2", "IN", t, "45", "Voice") : t \in SheetTimes} \cup {BlankRow}

InitSheets ==
  /\ \E f \in FilterFiles, body \in SeqsUpTo(SheetRows, MaxRows) :
       /\ rawData = HeaderRows(f.kind) \o body
       /\ fileName = f.name
  /\ processedData = NoResult
  /\ cdrPc = "call"
  /\ NetIdle
  /\ FnIdle
  /\ UiIdle

SpecSheets == InitSheets /\ [][NextCDR]_vars

\* the columns of the mapping table in a row of the night or day table
MappingColumns(row) ==
  [f \in DOMAIN row \ {"AreaLocation", "DateTime"} |-> row[f]]

\* the rows of table at the indices of S, in order
RECURSIVE AtIndices(_, _)
AtIndices(table, S) ==
  IF S = {} THEN <<>>
  ELSE LET last == CHOOSE i \in S : \A j \in S : j <= i
       IN  Append(AtIndices(table, S \ {last}), table[last])

\* the hour of the time is no number
NoHour(time) == time = "" \/ ~AllDigits(SplitFirst(Trim(time), ":"))

\* C30: nightMapping and dayMapping partition the mapping table: the rows of
\* some set of its indices, in order, are the night table and the rows of the
\* other indices, in order, are the day table, so the lengths add up to the
\* length of mapping; and a row whose time is empty or has a non-numeric
\* hour is in the day table.
C30_NightDayPartition ==
  cdrPc = "done" =>
    LET mapping == processedData.mapping
        night == [k \in 1..Len(processedData.nightMapping) |->
                    MappingColumns(processedData.nightMapping[k])]
        day == [k \in 1..Len(processedData.dayMapping) |->
                  MappingColumns(processedData.dayMapping[k])]
        all == 1..Len(mapping)
    IN  /\ Len(night) + Len(day) = Len(mapping)
        /\ \E S \in SUBSET all :
             /\ night = AtIndices(mapping, S)
             /\ day = AtIndices(mapping, all \ S)
             /\ \A i \in S : ~NoHour(mapping[i].Time)

\* a file of a row without a time and an evening row: the first is in the
\* day table and the second in the night table
C30_Witness ==
  /\ cdrPc = "done"
  /\ Len(processedData.mapping) = 2
  /\ processedData.mapping[1].Time = ""
  /\ processedData.mapping[2].Time = "20:00"
  /\ Len(processedData.dayMapping) = 1
  /\ processedData.dayMapping[1].Time = ""
  /\ Len(processedData.nightMapping) = 1
  /\ processedData.nightMapping[1].Time = "20:00"

====
